---------------------------- MODULE Spec2Model ----------------------------
(***************************************************************************)
(* Model of the saimiris gateway (nxthdr/saimiris-gateway).                *)
(*                                                                         *)
(*  SpecUserId : get_or_create_user_id and the user_id_mappings table      *)
(*  SpecUserIdLive : the same tasks under weak fairness, for termination   *)
(*  SpecDb     : the Database methods on the tracking and limit tables     *)
(*  SpecPublish : two POST /probes in sequence while an agent changes      *)
(*  Spec       : tracking rows, quota admission, POST /probes, agent       *)
(*               status updates                                            *)
(*  SpecPrefix : calculate_user_prefix / validate_user_ipv6                *)
(*  SpecCodec  : deserialize_probes_batch                                  *)
(*  SpecSubmit : the validation of one POST /probes                        *)
(*  SpecAgents : the agent registry, the agent-facing API and the sweep    *)
(*  SpecJwks   : JwtValidator::get_or_create and the JWKS cache            *)
(*                                                                         *)
(* Every specification constrains all variables; the variables of the      *)
(* other parts stay at their initial value.                                *)
(***************************************************************************)
EXTENDS Integers, Sequences, FiniteSets, TLC

VARIABLES
    user_id_mappings,      \* table user_id_mappings: set of rows [user_hash, user_id]
    callers,               \* tasks running get_or_create_user_id
    measurement_tracking,  \* table measurement_tracking: sequence of rows (insertion order)
    user_limits,           \* table user_limits: set of rows [user_hash, probe_limit]
    now,                   \* Utc::now(), in clock units
    agent_store,           \* AgentStore: agent id -> registration, health, configuration
    requests,              \* tasks running submit_probes
    kafka,                 \* messages acknowledged by the bus, in order
    prefix_call,           \* one evaluation of the prefix functions
    codec_call,            \* one evaluation of deserialize_probes_batch
    registry,              \* AgentStore with the agents' secrets and last_seen
    agent_out,             \* the last answer on the agent side: a response, or a sweep's ids
    JWKS_CACHE,            \* static JWKS_CACHE: Option<JwtValidator>
    LAST_JWKS_REFRESH,     \* static LAST_JWKS_REFRESH: Option<Instant>
    validators             \* tasks running JwtValidator::get_or_create

vars == <<user_id_mappings, callers, measurement_tracking, user_limits, now,
          agent_store, requests, kafka, prefix_call, codec_call, registry, agent_out,
          JWKS_CACHE, LAST_JWKS_REFRESH, validators>>

userIdVars  == <<user_id_mappings, callers>>
dbVars      == <<measurement_tracking, user_limits, now>>
gatewayVars == <<agent_store, requests, kafka>>
agentVars   == <<registry, agent_out>>
jwksVars    == <<JWKS_CACHE, LAST_JWKS_REFRESH, validators>>

\* Option<T>: None is the empty set, Some(x) the singleton.
None == {}
Some(x) == {x}
Unwrap(o) == CHOOSE x \in o : TRUE

Max(S) == CHOOSE x \in S : \A y \in S : y <= x

(***************************************************************************)
(* u32 values.  TLC's integers are 32-bit signed, so a u32 is kept as two  *)
(* 16-bit limbs <<hi, lo>> and the arithmetic is done limb by limb.        *)
(***************************************************************************)
Limb == 256 * 256

U32Lt(a, b) == a[1] < b[1] \/ (a[1] = b[1] /\ a[2] < b[2])

U32Sub(a, b) ==
    IF a[2] >= b[2] THEN <<a[1] - b[1], a[2] - b[2]>>
                    ELSE <<a[1] - b[1] - 1, a[2] + Limb - b[2]>>

U32Add(a, b) ==
    LET lo == a[2] + b[2]
    IN  <<(a[1] + b[1] + (lo \div Limb)) % Limb, lo % Limb>>

RECURSIVE U32Rem(_, _)
U32Rem(a, m) == IF U32Lt(a, m) THEN a ELSE U32Rem(U32Sub(a, m), m)

(***************************************************************************)
(* User identities.  SHA-256 is not computed: each subject has a fixed     *)
(* digest, of which the first eight hex digits are given (the rest is      *)
(* stood for by the subject's name, so digests of distinct subjects        *)
(* differ).                                                                *)
(***************************************************************************)
Subjects == {"alice", "bob", "carol", "dave", "erin"}

HashPrefix(subject) ==
    CASE subject = "alice" -> <<0, 0, 0, 0, 0, 0, 0, 5>>      \* 0x00000005, below MIN_USER_ID
      [] subject = "bob"   -> <<0, 0, 0, 0, 0, 3, 14, 13>>    \* 0x000003ED = 1005
      [] subject = "carol" -> <<15, 15, 15, 15, 15, 15, 15, 15>> \* 0xFFFFFFFF, above MAX_USER_ID
      [] subject = "dave"  -> <<0, 0, 0, 0, 0, 3, 14, 7>>     \* 0x000003E7 = 999
      [] subject = "erin"  -> <<15, 15, 15, 15, 15, 15, 0, 1>> \* 0xFFFFFF01 = MAX_USER_ID + 1

hash_user_identifier(user_id) == [subject |-> user_id, prefix |-> HashPrefix(user_id)]

UserHashes == {hash_user_identifier(s) : s \in Subjects}

\* u32::from_str_radix(&user_hash[..8], 16)
from_str_radix(d) ==
    <<d[1] * 4096 + d[2] * 256 + d[3] * 16 + d[4],
      d[5] * 4096 + d[6] * 256 + d[7] * 16 + d[8]>>

MIN_USER_ID == <<0, 1000>>          \* 1000
MAX_USER_ID == <<65535, 65280>>     \* 0xFFFF_FF00

generate_deterministic_user_id_NoClamp(user_hash) == from_str_radix(user_hash.prefix)

generate_deterministic_user_id_Clamp(user_hash) ==
    LET hash_u32 == from_str_radix(user_hash.prefix)
    IN  IF U32Lt(hash_u32, MIN_USER_ID) THEN MIN_USER_ID
        ELSE IF U32Lt(MAX_USER_ID, hash_u32) THEN MAX_USER_ID
        ELSE hash_u32

generate_deterministic_user_id(user_hash) ==
    LET hash_u32 == from_str_radix(user_hash.prefix)
    IN  IF U32Lt(hash_u32, MIN_USER_ID)
          THEN U32Add(MIN_USER_ID, U32Rem(hash_u32, U32Sub(MAX_USER_ID, MIN_USER_ID)))
        ELSE IF U32Lt(MAX_USER_ID, hash_u32)
          THEN U32Add(MIN_USER_ID, U32Rem(hash_u32, U32Sub(MAX_USER_ID, MIN_USER_ID)))
        ELSE hash_u32

\* rng.random_range(MIN_USER_ID..=MAX_USER_ID): the draws the model tries.
RandomDraws == {<<0, 1005>>, <<0, 2255>>, <<4660, 22136>>}

generate_random_user_id == RandomDraws

\* max_attempts of get_or_create_user_id (100 in the code), scaled down.
MaxAttempts == 3

(***************************************************************************)
(* Table user_id_mappings: primary key user_hash, unique user_id.          *)
(***************************************************************************)
\* Database::get_user_id_by_hash: the ids stored for the hash ({} = None).
get_user_id_by_hash(user_hash) ==
    {r.user_id : r \in {x \in user_id_mappings : x.user_hash = user_hash}}

\* The constraint violations an INSERT of (user_hash, user_id) meets.
HashTaken(rows, user_hash) == \E r \in rows : r.user_hash = user_hash
IdTaken(rows, user_id)     == \E r \in rows : r.user_id = user_id

\* Database::create_user_id_mapping: the outcomes of the INSERT.  The mock
\* tests user_hash first; PostgreSQL reports whichever unique index it
\* checks first, so with both violated either error may come back.
create_user_id_mapping_NoPk(rows, user_hash, user_id) ==
    IF IdTaken(rows, user_id) THEN {"user_id"} ELSE {"ok"}

create_user_id_mapping_NoUnique(rows, user_hash, user_id) ==
    IF HashTaken(rows, user_hash) THEN {"user_hash"} ELSE {"ok"}

create_user_id_mapping(rows, user_hash, user_id) ==
    IF HashTaken(rows, user_hash) /\ IdTaken(rows, user_id) THEN {"user_hash", "user_id"}
    ELSE IF HashTaken(rows, user_hash) THEN {"user_hash"}
    ELSE IF IdTaken(rows, user_id) THEN {"user_id"}
    ELSE {"ok"}

(***************************************************************************)
(* get_or_create_user_id, one action per database round trip.              *)
(***************************************************************************)
Callers == {"t1", "t2"}

NoResult == [kind |-> "none", value |-> <<0, 0>>]

IdleCaller == [pc |-> "idle", subject |-> "none", attempt |-> 0,
               candidate |-> <<0, 0>>, result |-> NoResult, path |-> "none"]

Return(c, kind, value, path) ==
    [c EXCEPT !.pc = "done", !.result = [kind |-> kind, value |-> value], !.path = path]

\* A loop without max_attempts: one more random draw after every conflict.
Continue_Unbounded(c) == [c EXCEPT !.pc = "insert", !.attempt = 1]

\* The `continue` of the retry loop: the next attempt, or the error after
\* max_attempts attempts.
Continue(c) ==
    IF c.attempt + 1 >= MaxAttempts
      THEN Return(c, "err", <<0, 0>>, "exhausted")
      ELSE [c EXCEPT !.pc = "insert", !.attempt = c.attempt + 1]

Call(t, s) ==
    /\ callers[t].pc = "idle"
    /\ callers' = [callers EXCEPT ![t] = [IdleCaller EXCEPT !.pc = "lookup", !.subject = s]]
    /\ UNCHANGED user_id_mappings

\* lib.rs 817-832: the first get_user_id_by_hash.
Lookup(t) ==
    LET c == callers[t]
        found == get_user_id_by_hash(hash_user_identifier(c.subject))
    IN  /\ c.pc = "lookup"
        /\ \/ /\ found # {}
              /\ \E id \in found : callers' = [callers EXCEPT ![t] = Return(c, "ok", id, "found")]
           \/ /\ found = {}
              /\ callers' = [callers EXCEPT ![t] = [c EXCEPT !.pc = "insert", !.attempt = 0]]
           \/ callers' = [callers EXCEPT ![t] = Return(c, "err", <<0, 0>>, "error")]
        /\ UNCHANGED user_id_mappings

Insert_Upsert(t) ==
    LET c == callers[t]
        user_hash == hash_user_identifier(c.subject)
        candidates == IF c.attempt = 0 THEN {generate_deterministic_user_id(user_hash)}
                      ELSE generate_random_user_id
    IN  /\ c.pc = "insert"
        /\ \E candidate_id \in candidates :
             \E outcome \in create_user_id_mapping(user_id_mappings, user_hash, candidate_id) :
               \/ /\ outcome \in {"ok", "user_hash"}
                  /\ user_id_mappings' =
                        {r \in user_id_mappings : r.user_hash # user_hash} \cup
                        {[user_hash |-> user_hash, user_id |-> candidate_id]}
                  /\ callers' = [callers EXCEPT ![t] =
                        Return([c EXCEPT !.candidate = candidate_id], "ok", candidate_id, "inserted")]
               \/ /\ outcome = "user_id"
                  /\ callers' = [callers EXCEPT ![t] = Continue([c EXCEPT !.candidate = candidate_id])]
                  /\ UNCHANGED user_id_mappings

\* lib.rs 836-856, 889-897: one candidate and its INSERT.
Insert(t) ==
    LET c == callers[t]
        user_hash == hash_user_identifier(c.subject)
        candidates == IF c.attempt = 0 THEN {generate_deterministic_user_id(user_hash)}
                      ELSE generate_random_user_id
    IN  /\ c.pc = "insert"
        /\ \E candidate_id \in candidates :
             \E outcome \in create_user_id_mapping(user_id_mappings, user_hash, candidate_id) :
               \/ /\ outcome = "ok"
                  /\ user_id_mappings' = user_id_mappings \cup
                        {[user_hash |-> user_hash, user_id |-> candidate_id]}
                  /\ callers' = [callers EXCEPT ![t] =
                        Return([c EXCEPT !.candidate = candidate_id], "ok", candidate_id, "inserted")]
               \/ /\ outcome = "user_hash"
                  /\ callers' = [callers EXCEPT ![t] =
                        [c EXCEPT !.pc = "reread", !.candidate = candidate_id]]
                  /\ UNCHANGED user_id_mappings
               \/ /\ outcome = "user_id"
                  /\ callers' = [callers EXCEPT ![t] = Continue([c EXCEPT !.candidate = candidate_id])]
                  /\ UNCHANGED user_id_mappings

\* lib.rs 898-900: an INSERT that fails for another reason.
InsertError(t) ==
    /\ callers[t].pc = "insert"
    /\ callers' = [callers EXCEPT ![t] = Return(callers[t], "err", <<0, 0>>, "error")]
    /\ UNCHANGED user_id_mappings

\* lib.rs 862-888: after a user_hash conflict, read the row the other task wrote.
Reread(t) ==
    LET c == callers[t]
        found == get_user_id_by_hash(hash_user_identifier(c.subject))
    IN  /\ c.pc = "reread"
        /\ \/ /\ found # {}
              /\ \E id \in found : callers' = [callers EXCEPT ![t] = Return(c, "ok", id, "reread")]
           \/ /\ found = {}
              /\ callers' = [callers EXCEPT ![t] = Continue(c)]
           \/ callers' = [callers EXCEPT ![t] = Return(c, "err", <<0, 0>>, "error")]
        /\ UNCHANGED user_id_mappings

\* The task ends; its slot serves the next request.
Finish(t) ==
    /\ callers[t].pc = "done"
    /\ callers' = [callers EXCEPT ![t] = IdleCaller]
    /\ UNCHANGED user_id_mappings

UserIdIdle == /\ user_id_mappings = {}
              /\ callers = [t \in Callers |-> IdleCaller]

(***************************************************************************)
(* Database: tables measurement_tracking and user_limits (database.rs).    *)
(* The clock counts units of which DayUnits make one UTC day.              *)
(***************************************************************************)
DayUnits == 1
MaxRows  == 2
Times    == {0, 1}

DEFAULT_PROBE_LIMIT == 10000

Users        == {"alice", "bob"}
Agents       == {"a1", "a2"}
Measurements == {"m1", "m2"}

\* now.date_naive().and_hms_opt(0, 0, 0): midnight of the current day.
today_start(t) == (t \div DayUnits) * DayUnits

\* chrono::Duration::days(days)
Days(days) == days * DayUnits

RowIndexes(rows) == 1..Len(rows)

\* MockStorage::get_user_limit / the SELECT on user_limits.
limit_of(limits, user_hash) ==
    IF \E ul \in limits : ul.user_hash = user_hash
      THEN (CHOOSE ul \in limits : ul.user_hash = user_hash).probe_limit
      ELSE DEFAULT_PROBE_LIMIT

\* MockStorage::set_user_limit / INSERT ... ON CONFLICT (user_hash) DO UPDATE.
\* The row's created_at and updated_at are read by nothing and are left out.
set_user_limit(limits, user_id, probe_limit) ==
    LET user_hash == hash_user_identifier(user_id)
    IN  IF \E ul \in limits : ul.user_hash = user_hash
          THEN {IF ul.user_hash = user_hash
                  THEN [ul EXCEPT !.probe_limit = probe_limit]
                  ELSE ul : ul \in limits}
          ELSE limits \cup {[user_hash |-> user_hash, probe_limit |-> probe_limit]}

\* MockStorage::get_user_stats: the fold over the filtered rows.
RECURSIVE FoldStats(_, _, _, _, _)
FoldStats(rows, i, user_hash, start_time, end_time) ==
    IF i > Len(rows)
      THEN [measurements |-> {}, total_probes |-> 0, last_submitted |-> None]
      ELSE LET rest == FoldStats(rows, i + 1, user_hash, start_time, end_time)
               t == rows[i]
           IN  IF t.user_hash = user_hash /\ t.created_at >= start_time /\ t.created_at <= end_time
                 THEN [measurements |-> rest.measurements \cup {t.measurement_id},
                       total_probes |-> rest.total_probes + t.expected_probes,
                       last_submitted |-> Some(Max(rest.last_submitted \cup {t.updated_at}))]
                 ELSE rest

get_user_stats_CountRows(rows, limits, user_hash, start_time, end_time) ==
    LET f == FoldStats(rows, 1, user_hash, start_time, end_time)
    IN  [user_hash |-> user_hash,
         submission_count |->
             Cardinality({i \in RowIndexes(rows) :
                            /\ rows[i].user_hash = user_hash
                            /\ rows[i].created_at >= start_time
                            /\ rows[i].created_at <= end_time}),
         total_probes |-> f.total_probes,
         limit |-> limit_of(limits, user_hash),
         last_submitted |-> f.last_submitted]

get_user_stats(rows, limits, user_hash, start_time, end_time) ==
    LET f == FoldStats(rows, 1, user_hash, start_time, end_time)
    IN  [user_hash |-> user_hash,
         submission_count |-> Cardinality(f.measurements),
         total_probes |-> f.total_probes,
         limit |-> limit_of(limits, user_hash),
         last_submitted |-> f.last_submitted]

\* Database::get_user_usage_stats: None stands for an absent bound.
get_user_usage_stats(rows, limits, t, user_id, start_time, end_time) ==
    get_user_stats(rows, limits, hash_user_identifier(user_id),
                   IF start_time = None THEN today_start(t) ELSE Unwrap(start_time),
                   IF end_time = None THEN t ELSE Unwrap(end_time))

\* Database::can_user_submit_probes
can_user_submit_probes_IgnoreAdditional(rows, limits, t, user_id, additional_probes, days_back) ==
    LET start_time == IF days_back # None THEN t - Days(Unwrap(days_back)) ELSE today_start(t)
        stats == get_user_usage_stats(rows, limits, t, user_id, Some(start_time), Some(t))
    IN  stats.total_probes <= stats.limit

can_user_submit_probes_Strict(rows, limits, t, user_id, additional_probes, days_back) ==
    LET start_time == IF days_back # None THEN t - Days(Unwrap(days_back)) ELSE today_start(t)
        stats == get_user_usage_stats(rows, limits, t, user_id, Some(start_time), Some(t))
    IN  stats.total_probes + additional_probes < stats.limit

can_user_submit_probes(rows, limits, t, user_id, additional_probes, days_back) ==
    LET start_time == IF days_back # None THEN t - Days(Unwrap(days_back)) ELSE today_start(t)
        stats == get_user_usage_stats(rows, limits, t, user_id, Some(start_time), Some(t))
    IN  stats.total_probes + additional_probes <= stats.limit

\* Database::create_measurement_tracking (mock: push; the row id is the position).
create_measurement_tracking(rows, t, user_hash, measurement_id, agent_id, expected_probes) ==
    Append(rows, [id |-> Len(rows) + 1,
                  user_hash |-> user_hash,
                  measurement_id |-> measurement_id,
                  agent_id |-> agent_id,
                  expected_probes |-> expected_probes,
                  sent_probes |-> 0,
                  is_complete |-> FALSE,
                  created_at |-> t,
                  updated_at |-> t])

\* The rows an update addresses, in table order.
Matching(rows, measurement_id, user_hash, agent_id) ==
    {i \in RowIndexes(rows) : /\ rows[i].measurement_id = measurement_id
                              /\ rows[i].user_hash = user_hash
                              /\ rows[i].agent_id = agent_id}

Min(S) == CHOOSE x \in S : \A y \in S : x <= y

update_measurement_probe_count_ResetsCreatedAt(rows, t, measurement_id, user_hash, agent_id, sent_probes, is_complete) ==
    LET hit == Matching(rows, measurement_id, user_hash, agent_id)
    IN  IF hit = {} THEN rows
        ELSE [rows EXCEPT ![Min(hit)] =
                 [@ EXCEPT !.sent_probes = sent_probes,
                           !.is_complete = is_complete,
                           !.created_at = t,
                           !.updated_at = t]]

\* Database::update_measurement_probe_count: the table afterwards.  With no
\* matching row the call fails (RowNotFound) and the table is unchanged.
update_measurement_probe_count(rows, t, measurement_id, user_hash, agent_id, sent_probes, is_complete) ==
    LET hit == Matching(rows, measurement_id, user_hash, agent_id)
    IN  IF hit = {} THEN rows
        ELSE [rows EXCEPT ![Min(hit)] =
                 [@ EXCEPT !.sent_probes = sent_probes,
                           !.is_complete = is_complete,
                           !.updated_at = t]]

RECURSIVE SumField(_, _, _)
SumField(rows, idx, f) ==
    IF idx = {} THEN 0
    ELSE LET i == Min(idx) IN rows[i][f] + SumField(rows, idx \ {i}, f)

\* Database::get_measurement_status (mock), None when the measurement has no row.
get_measurement_status_AnyComplete(rows, measurement_id, user_hash) ==
    LET records == {i \in RowIndexes(rows) : /\ rows[i].measurement_id = measurement_id
                                            /\ rows[i].user_hash = user_hash}
        completed_agents == Cardinality({i \in records : rows[i].is_complete})
    IN  IF records = {} THEN None
        ELSE Some([measurement_id |-> measurement_id,
              user_hash |-> user_hash,
              total_agents |-> Cardinality(records),
              total_expected_probes |-> SumField(rows, records, "expected_probes"),
              total_sent_probes |-> SumField(rows, records, "sent_probes"),
              completed_agents |-> completed_agents,
              measurement_complete |-> completed_agents > 0,
              started_at |-> Min({rows[i].created_at : i \in records}),
              last_updated |-> Max({rows[i].updated_at : i \in records})])

get_measurement_status_CapSent(rows, measurement_id, user_hash) ==
    LET records == {i \in RowIndexes(rows) : /\ rows[i].measurement_id = measurement_id
                                            /\ rows[i].user_hash = user_hash}
        completed_agents == Cardinality({i \in records : rows[i].is_complete})
        total_expected_probes == SumField(rows, records, "expected_probes")
        total_sent_probes == SumField(rows, records, "sent_probes")
    IN  IF records = {} THEN None
        ELSE Some([measurement_id |-> measurement_id,
              user_hash |-> user_hash,
              total_agents |-> Cardinality(records),
              total_expected_probes |-> total_expected_probes,
              total_sent_probes |-> IF total_sent_probes > total_expected_probes
                                      THEN total_expected_probes ELSE total_sent_probes,
              completed_agents |-> completed_agents,
              measurement_complete |-> completed_agents = Cardinality(records),
              started_at |-> Min({rows[i].created_at : i \in records}),
              last_updated |-> Max({rows[i].updated_at : i \in records})])

get_measurement_status_AnyUser(rows, measurement_id, user_hash) ==
    LET records == {i \in RowIndexes(rows) : rows[i].measurement_id = measurement_id}
        completed_agents == Cardinality({i \in records : rows[i].is_complete})
    IN  IF records = {} THEN None
        ELSE Some([measurement_id |-> measurement_id,
              user_hash |-> user_hash,
              total_agents |-> Cardinality(records),
              total_expected_probes |-> SumField(rows, records, "expected_probes"),
              total_sent_probes |-> SumField(rows, records, "sent_probes"),
              completed_agents |-> completed_agents,
              measurement_complete |-> completed_agents = Cardinality(records),
              started_at |-> Min({rows[i].created_at : i \in records}),
              last_updated |-> Max({rows[i].updated_at : i \in records})])

get_measurement_status(rows, measurement_id, user_hash) ==
    LET records == {i \in RowIndexes(rows) : /\ rows[i].measurement_id = measurement_id
                                            /\ rows[i].user_hash = user_hash}
        completed_agents == Cardinality({i \in records : rows[i].is_complete})
    IN  IF records = {} THEN None
        ELSE Some([measurement_id |-> measurement_id,
              user_hash |-> user_hash,
              total_agents |-> Cardinality(records),
              total_expected_probes |-> SumField(rows, records, "expected_probes"),
              total_sent_probes |-> SumField(rows, records, "sent_probes"),
              completed_agents |-> completed_agents,
              measurement_complete |-> completed_agents = Cardinality(records),
              started_at |-> Min({rows[i].created_at : i \in records}),
              last_updated |-> Max({rows[i].updated_at : i \in records})])

\* Database::get_measurement_tracking_by_agent: the first row of (measurement, agent).
get_measurement_tracking_by_agent(rows, measurement_id, agent_id) ==
    LET hit == {i \in RowIndexes(rows) : /\ rows[i].measurement_id = measurement_id
                                        /\ rows[i].agent_id = agent_id}
    IN  IF hit = {} THEN None ELSE Some(rows[Min(hit)])

\* records.sort_by(|a, b| a.created_at.cmp(&b.created_at)): a stable sort.
RECURSIVE sort_by_created_at(_)
sort_by_created_at(records) ==
    IF records = <<>> THEN <<>>
    ELSE LET first  == Head(records)
             sorted == sort_by_created_at(Tail(records))
             k      == Cardinality({i \in 1..Len(sorted) :
                                      sorted[i].created_at < first.created_at})
         IN  SubSeq(sorted, 1, k) \o <<first>> \o SubSeq(sorted, k + 1, Len(sorted))

\* Database::get_measurement_tracking: the rows of (measurement, user),
\* ordered by created_at.
get_measurement_tracking(rows, measurement_id, user_hash) ==
    sort_by_created_at(SelectSeq(rows, LAMBDA row : /\ row.measurement_id = measurement_id
                                                   /\ row.user_hash = user_hash))

\* Uuid::parse_str on the path segment: the measurement ids are the UUIDs.
Uuid_parse_str(s) == IF s \in Measurements THEN Some(s) ELSE None

\* get_measurement_status_handler (lib.rs 622-704): the answers it can give
\* to user sub for the path segment measurement_id.  Either query may fail:
\* a failed status query is answered 500, a failed detail query leaves the
\* "agents" list empty.
get_measurement_status_handler(rows, sub, measurement_id) ==
    IF Uuid_parse_str(measurement_id) = None THEN {[status |-> 400, body |-> None]}
    ELSE LET measurement_uuid == Unwrap(Uuid_parse_str(measurement_id))
             user_hash == hash_user_identifier(sub)
             status    == get_measurement_status(rows, measurement_uuid, user_hash)
             detail(tracking) ==
                 [i \in 1..Len(tracking) |->
                     [agent_id |-> tracking[i].agent_id,
                      expected_probes |-> tracking[i].expected_probes,
                      sent_probes |-> tracking[i].sent_probes,
                      is_complete |-> tracking[i].is_complete,
                      updated_at |-> tracking[i].updated_at]]
         IN  {[status |-> 500, body |-> None]} \cup
             IF status = None THEN {[status |-> 404, body |-> None]}
             ELSE {[status |-> 200,
                    body |-> Some([measurement_id |-> Unwrap(status).measurement_id,
                                   total_agents |-> Unwrap(status).total_agents,
                                   completed_agents |-> Unwrap(status).completed_agents,
                                   total_expected_probes |-> Unwrap(status).total_expected_probes,
                                   total_sent_probes |-> Unwrap(status).total_sent_probes,
                                   measurement_complete |-> Unwrap(status).measurement_complete,
                                   started_at |-> Unwrap(status).started_at,
                                   last_updated |-> Unwrap(status).last_updated,
                                   agents |-> detail(tracking)])] :
                   tracking \in {get_measurement_tracking(rows, measurement_uuid, user_hash),
                                 <<>>}}


(***************************************************************************)
(* SpecDb: the Database methods called directly, as the unit tests of      *)
(* database.rs do.  A measurement id is the fresh UUID of one submission:  *)
(* m1 is a submission of 60 probes by alice, m2 one of 40 probes by bob.   *)
(***************************************************************************)
ExpectedOf(m) == IF m = "m1" THEN 60 ELSE 20
OwnerOf(m)    == IF m = "m1" THEN "alice" ELSE "bob"
SentCounts  == {25}
Additionals == {40, 41, 9940, 9941}
ProbeLimits == {100}
DaysBack    == {None, Some(0), Some(1)}

DbIdle == /\ measurement_tracking = <<>>
          /\ user_limits = {}
          /\ now = 0

DbCreate(m, a) ==
    /\ Len(measurement_tracking) < MaxRows
    /\ measurement_tracking' =
          create_measurement_tracking(measurement_tracking, now,
                                      hash_user_identifier(OwnerOf(m)), m, a, ExpectedOf(m))
    /\ UNCHANGED <<user_limits, now>>

DbUpdate(m, u, a, sent, complete) ==
    /\ measurement_tracking' =
          update_measurement_probe_count(measurement_tracking, now, m,
                                         hash_user_identifier(u), a, sent, complete)
    /\ UNCHANGED <<user_limits, now>>

DbSetLimit(u, l) ==
    /\ user_limits' = set_user_limit(user_limits, u, l)
    /\ UNCHANGED <<measurement_tracking, now>>

Tick ==
    /\ now + 1 \in Times
    /\ now' = now + 1
    /\ UNCHANGED <<measurement_tracking, user_limits>>

(***************************************************************************)
(* IPv6 prefixes (lib.rs 943-1013).  An Ipv6Addr is its eight 16-bit       *)
(* segments, most significant first; a u128 is kept in the same eight      *)
(* limbs.  A text is the token sequence of the address ("::" is Gap, a hex *)
(* group is Hex, an octet of a dotted IPv4 tail is Dec) and the optional   *)
(* "/len".                                                                 *)
(***************************************************************************)
RECURSIVE Pow2(_)
Pow2(n) == IF n = 0 THEN 1 ELSE 2 * Pow2(n - 1)

RECURSIVE BitAnd(_, _)
BitAnd(a, b) ==
    IF a = 0 \/ b = 0 THEN 0
    ELSE (a % 2) * (b % 2) + 2 * BitAnd(a \div 2, b \div 2)

RECURSIVE BitOr(_, _)
BitOr(a, b) ==
    IF a = 0 THEN b
    ELSE IF b = 0 THEN a
    ELSE Max({a % 2, b % 2}) + 2 * BitOr(a \div 2, b \div 2)

Hex(v) == [kind |-> "hex", v |-> v]
Dec(v) == [kind |-> "dec", v |-> v]
Gap    == [kind |-> "gap", v |-> 0]

Text(addr, len) == [addr |-> addr, len |-> len]

IsHexSeq(s) == \A i \in 1..Len(s) : s[i].kind = "hex"

\* The segments of a run of groups without "::"; a dotted IPv4 tail gives
\* the last two segments.
Groups(s) ==
    LET n == Len(s)
    IN  IF IsHexSeq(s) THEN Some([i \in 1..n |-> s[i].v])
        ELSE IF /\ n >= 4
                /\ IsHexSeq(SubSeq(s, 1, n - 4))
                /\ \A i \in (n - 3)..n : s[i].kind = "dec"
          THEN Some([i \in 1..(n - 4) |-> s[i].v]
                    \o <<s[n - 3].v * 256 + s[n - 2].v, s[n - 1].v * 256 + s[n].v>>)
        ELSE None

\* <Ipv6Addr as FromStr>::from_str
Ipv6Addr_from_str(tokens) ==
    LET gaps == {i \in 1..Len(tokens) : tokens[i].kind = "gap"}
    IN  IF gaps = {}
          THEN LET g == Groups(tokens)
               IN  IF g # None /\ Len(Unwrap(g)) = 8 THEN g ELSE None
        ELSE IF Cardinality(gaps) > 1 THEN None
        ELSE LET p    == Unwrap(gaps)
                 head == SubSeq(tokens, 1, p - 1)
                 tail == Groups(SubSeq(tokens, p + 1, Len(tokens)))
             IN  IF ~IsHexSeq(head) \/ tail = None THEN None
                 ELSE IF Len(head) + Len(Unwrap(tail)) > 7 THEN None
                 ELSE Some([i \in 1..Len(head) |-> head[i].v]
                           \o [i \in 1..(8 - Len(head) - Len(Unwrap(tail))) |-> 0]
                           \o Unwrap(tail))

\* Ipv6Net::new
Ipv6Net_new(addr, prefix_len) ==
    IF prefix_len > 128 THEN None ELSE Some([addr |-> addr, prefix_len |-> prefix_len])

\* <Ipv6Net as FromStr>::from_str: "addr/len"; the address keeps its host bits.
Ipv6Net_from_str(text) ==
    LET addr == Ipv6Addr_from_str(text.addr)
    IN  IF text.len = None \/ addr = None THEN None
        ELSE Ipv6Net_new(Unwrap(addr), Unwrap(text.len))

RECURSIVE RunLen(_, _)
RunLen(seg, i) == IF i > 8 THEN 0 ELSE IF seg[i] # 0 THEN 0 ELSE 1 + RunLen(seg, i + 1)

\* <Ipv6Addr as Display>::fmt: an IPv4-mapped address is written with a
\* dotted tail; otherwise the first longest run of two or more zero
\* segments is written "::".
fmt_Ipv6Addr(seg) ==
    LET starts == {i \in 1..8 : seg[i] = 0 /\ (i = 1 \/ seg[i - 1] # 0)}
        best   == Max({RunLen(seg, i) : i \in starts} \cup {0})
        start  == Min({i \in starts : RunLen(seg, i) = best})
    IN  IF (\A i \in 1..5 : seg[i] = 0) /\ seg[6] = Limb - 1
          THEN <<Gap, Hex(seg[6]), Dec(seg[7] \div 256), Dec(seg[7] % 256),
                 Dec(seg[8] \div 256), Dec(seg[8] % 256)>>
        ELSE IF best < 2 THEN [i \in 1..8 |-> Hex(seg[i])]
        ELSE [i \in 1..(start - 1) |-> Hex(seg[i])]
             \o <<Gap>>
             \o [i \in 1..(9 - start - best) |-> Hex(seg[start + best - 1 + i])]

\* Ipv6Net::netmask / hostmask, segment by segment.
netmask(prefix_len) ==
    [k \in 1..8 |-> Limb - Pow2(16 - Max({0, Min({16, prefix_len - 16 * (k - 1)})}))]

hostmask(prefix_len) == [k \in 1..8 |-> Limb - 1 - netmask(prefix_len)[k]]

\* Ipv6Net::network / broadcast / contains
network(net)   == [k \in 1..8 |-> BitAnd(net.addr[k], netmask(net.prefix_len)[k])]
broadcast(net) == [k \in 1..8 |-> BitOr(net.addr[k], hostmask(net.prefix_len)[k])]

AddrLe(a, b) ==
    \/ a = b
    \/ \E k \in 1..8 : a[k] < b[k] /\ \A j \in 1..(k - 1) : a[j] = b[j]

contains(net, ip) == AddrLe(network(net), ip) /\ AddrLe(ip, broadcast(net))

\* (user_id as u128) << shift, for a u32 <<hi, lo>>: limb j (0 = least
\* significant) of the result is segment 8 - j.
Shl(user_id, shift) ==
    LET q == shift \div 16
        r == shift % 16
        x == user_id[2] * Pow2(r)
        y == user_id[1] * Pow2(r)
    IN  [k \in 1..8 |->
            LET j == 8 - k
            IN  IF j = q THEN x % Limb
                ELSE IF j = q + 1 THEN BitOr(x \div Limb, y % Limb)
                ELSE IF j = q + 2 THEN y \div Limb
                ELSE 0]

U128Or(a, b) == [k \in 1..8 |-> BitOr(a[k], b[k])]

\* The tag is or-ed in without the shift to its place after the prefix.
calculate_user_prefix_addr_NoShift(agent_prefix, user_id) ==
    LET parsed == Ipv6Net_from_str(agent_prefix)
    IN  IF parsed = None THEN None
        ELSE IF Unwrap(parsed).prefix_len > 96 THEN None
        ELSE Some(U128Or(network(Unwrap(parsed)), Shl(user_id, 0)))

calculate_user_prefix_addr_NoMask(agent_prefix, user_id) ==
    LET parsed == Ipv6Net_from_str(agent_prefix)
    IN  IF parsed = None THEN None
        ELSE IF Unwrap(parsed).prefix_len > 96 THEN None
        ELSE Some(U128Or(Unwrap(parsed).addr,
                         Shl(user_id, 128 - Unwrap(parsed).prefix_len - 32)))

calculate_user_prefix_addr(agent_prefix, user_id) ==
    LET parsed == Ipv6Net_from_str(agent_prefix)
    IN  IF parsed = None THEN None
        ELSE IF Unwrap(parsed).prefix_len > 96 THEN None
        ELSE Some(U128Or(network(Unwrap(parsed)),
                         Shl(user_id, 128 - Unwrap(parsed).prefix_len - 32)))

validate_user_ipv6_AgentLen(user_ip, agent_prefix, user_id) ==
    LET parsed           == Ipv6Net_from_str(agent_prefix)
        user_prefix_addr == calculate_user_prefix_addr(agent_prefix, user_id)
    IN  IF parsed = None THEN FALSE
        ELSE IF Unwrap(parsed).prefix_len > 96 THEN FALSE
        ELSE IF user_prefix_addr = None THEN FALSE
        ELSE LET user_net == Ipv6Net_new(Unwrap(user_prefix_addr), Unwrap(parsed).prefix_len)
             IN  IF user_net = None THEN FALSE ELSE contains(Unwrap(user_net), user_ip)

validate_user_ipv6(user_ip, agent_prefix, user_id) ==
    LET parsed           == Ipv6Net_from_str(agent_prefix)
        user_prefix_addr == calculate_user_prefix_addr(agent_prefix, user_id)
    IN  IF parsed = None THEN FALSE
        ELSE IF Unwrap(parsed).prefix_len > 96 THEN FALSE
        ELSE IF user_prefix_addr = None THEN FALSE
        ELSE LET user_net == Ipv6Net_new(Unwrap(user_prefix_addr),
                                         Unwrap(parsed).prefix_len + 32)
             IN  IF user_net = None THEN FALSE ELSE contains(Unwrap(user_net), user_ip)

calculate_user_prefix_AnyLength(agent_prefix, user_id) ==
    LET parsed           == Ipv6Net_from_str(agent_prefix)
        user_prefix_addr == calculate_user_prefix_addr(agent_prefix, user_id)
    IN  IF parsed = None THEN None
        ELSE Some(Text(fmt_Ipv6Addr(IF user_prefix_addr = None THEN network(Unwrap(parsed))
                                    ELSE Unwrap(user_prefix_addr)),
                       Some(Unwrap(parsed).prefix_len + 32)))

\* format!("{}/{}", user_prefix_addr, user_prefix_len)
calculate_user_prefix(agent_prefix, user_id) ==
    LET parsed           == Ipv6Net_from_str(agent_prefix)
        user_prefix_addr == calculate_user_prefix_addr(agent_prefix, user_id)
    IN  IF parsed = None THEN None
        ELSE IF Unwrap(parsed).prefix_len > 96 THEN None
        ELSE IF user_prefix_addr = None THEN None
        ELSE Some(Text(fmt_Ipv6Addr(Unwrap(user_prefix_addr)),
                       Some(Unwrap(parsed).prefix_len + 32)))

(***************************************************************************)
(* SpecPrefix: one evaluation of calculate_user_prefix and of              *)
(* validate_user_ipv6 on the same agent prefix and tag.                    *)
(***************************************************************************)
AgentPrefixes ==
    { Text(<<Hex(8193), Hex(3512), Hex(4660), Gap>>, Some(48)),              \* 2001:db8:1234::/48
      Text(<<Hex(8193), Hex(3512), Gap, Hex(1)>>, Some(64)),                 \* 2001:db8::1/64
      Text(<<Hex(8193), Hex(3512), Hex(4671), Hex(65535), Gap>>, Some(44)),  \* 2001:db8:123f:ffff::/44
      Text(<<Gap>>, Some(0)),                                                \* ::/0
      Text(<<Gap>>, Some(64)),                                               \* ::/64
      Text(<<Hex(32768), Gap>>, Some(1)),                                    \* 8000::/1
      Text(<<Hex(8193), Hex(3512), Gap>>, Some(96)),                         \* 2001:db8::/96
      Text(<<Hex(8193), Hex(3512), Gap>>, Some(97)),                         \* 2001:db8::/97
      Text(<<Hex(8193), Hex(3512), Gap>>, Some(128)),                        \* 2001:db8::/128
      Text(<<Hex(8193), Hex(3512), Gap>>, Some(129)),                        \* 2001:db8::/129
      Text(<<Hex(8193), Hex(3512), Gap>>, None),                             \* 2001:db8::
      Text(<<Hex(8193), Gap, Hex(1), Gap>>, Some(48)) }                      \* 2001::1::/48

UserTags == {<<4660, 22136>>, <<0, 1000>>, <<0, 0>>, <<65535, 65535>>, <<0, 65535>>, MAX_USER_ID}

\* The user networks of the prefixes and tags above.
UserNets ==
    UNION {IF calculate_user_prefix_addr(P, T) = None THEN {}
           ELSE {[addr |-> Unwrap(calculate_user_prefix_addr(P, T)),
                  prefix_len |-> Unwrap(Ipv6Net_from_str(P)).prefix_len + 32]}
             : P \in AgentPrefixes, T \in UserTags}

\* The addresses tried: the first and the last address of every user
\* network, and three fixed ones.
UserIps ==
    {<<8193, 3512, 0, 0, 0, 0, 0, 1>>, <<0, 0, 0, 0, 0, 0, 0, 0>>,
     <<65535, 65535, 65535, 65535, 65535, 65535, 65535, 65535>>}
    \cup {n.addr : n \in UserNets} \cup {broadcast(n) : n \in UserNets}

PrefixCall(P, T, A) ==
    /\ prefix_call = <<>>
    /\ prefix_call' = <<[agent_prefix |-> P, user_id |-> T, user_ip |-> A,
                         user_prefix |-> calculate_user_prefix(P, T),
                         valid |-> validate_user_ipv6(A, P, T)]>>

(***************************************************************************)
(* Probe codec (probe.rs 244-399).  A JSON value is a tagged record; a     *)
(* byte string is a sequence of numbers below 256.                         *)
(***************************************************************************)
Str(s)     == [t |-> "str", s |-> s, n |-> 0]
Num(n)     == [t |-> "num", s |-> "", n |-> n]
Arr(items) == [t |-> "arr", items |-> items]

Ok(bytes)   == [kind |-> "ok", bytes |-> bytes, reason |-> ""]
Err(reason) == [kind |-> "err", bytes |-> <<>>, reason |-> reason]

\* IpAddr::from_str on the address texts the model uses: the 16 octets
\* after to_ipv6_mapped() / octets(), None for a text that is no address.
IpAddr_from_str(ip_str) ==
    CASE ip_str = "192.168.1.1" -> Some(<<0, 0, 0, 0, 0, 0, 0, 0, 0, 0, 255, 255, 192, 168, 1, 1>>)
      [] ip_str = "192.168.1.2" -> Some(<<0, 0, 0, 0, 0, 0, 0, 0, 0, 0, 255, 255, 192, 168, 1, 2>>)
      [] ip_str = "2001:db8::1" -> Some(<<32, 1, 13, 184, 0, 0, 0, 0, 0, 0, 0, 0, 0, 0, 0, 1>>)
      [] OTHER -> None

parse_ip_bytes_from_json(value) ==
    IF value.t # "str" THEN Err("IP address must be a string")
    ELSE IF IpAddr_from_str(value.s) = None THEN Err("Invalid IP address")
    ELSE Ok(Unwrap(IpAddr_from_str(value.s)))

\* The parsers of a port and of the TTL return the number in bytes[1].
parse_port_from_json(value, field_name) ==
    IF value.t # "num" THEN Err("must be a number")
    ELSE IF value.n < 0 THEN Err("Invalid format")
    ELSE IF value.n <= 65535 /\ value.n > 0 THEN Ok(<<value.n>>)
    ELSE Err("out of range")

parse_ttl_from_json(value) ==
    IF value.t # "num" THEN Err("TTL must be a number")
    ELSE IF value.n < 0 THEN Err("Invalid TTL format")
    ELSE IF value.n <= 255 /\ value.n > 0 THEN Ok(<<value.n>>)
    ELSE Err("TTL out of range")

to_lowercase(p) ==
    CASE p = "TCP" -> "tcp"
      [] p = "Udp" -> "udp"
      [] OTHER -> p

\* The ordinal of the Cap'n Proto enum variant, in bytes[1].
parse_protocol_capnp_from_json(value) ==
    IF value.t # "str" THEN Err("Protocol must be a string")
    ELSE CASE to_lowercase(value.s) = "tcp"    -> Ok(<<0>>)
           [] to_lowercase(value.s) = "udp"    -> Ok(<<1>>)
           [] to_lowercase(value.s) = "icmp"   -> Ok(<<2>>)
           [] to_lowercase(value.s) = "icmpv6" -> Ok(<<3>>)
           [] OTHER -> Err("Invalid protocol")

U16LE(n) == <<n % 256, n \div 256>>

\* capnp::serialize::write_message of a Probe message: segment table, root
\* struct pointer, one data word, the pointer to dst_addr, the address.
write_message(dst_addr, src_port, dst_port, ttl, protocol) ==
    <<0, 0, 0, 0, 3 + (Len(dst_addr) + 7) \div 8, 0, 0, 0>>
    \o <<0, 0, 0, 0, 1, 0, 1, 0>>
    \o U16LE(src_port) \o U16LE(dst_port) \o <<ttl, 0>> \o U16LE(protocol)
    \o <<1, 0, 0, 0, 2 + 8 * Len(dst_addr), 0, 0, 0>>
    \o dst_addr

deserialize_json_to_capnp(json_value) ==
    IF json_value.t # "arr" THEN Err("Expected JSON array for probe")
    ELSE IF Len(json_value.items) # 5 THEN Err("Invalid probe format")
    ELSE LET arr      == json_value.items
             ip_addr  == parse_ip_bytes_from_json(arr[1])
             src_port == parse_port_from_json(arr[2], "Source port")
             dst_port == parse_port_from_json(arr[3], "Destination port")
             ttl      == parse_ttl_from_json(arr[4])
             protocol == parse_protocol_capnp_from_json(arr[5])
         IN  IF ip_addr.kind = "err" THEN ip_addr
             ELSE IF src_port.kind = "err" THEN src_port
             ELSE IF dst_port.kind = "err" THEN dst_port
             ELSE IF ttl.kind = "err" THEN ttl
             ELSE IF protocol.kind = "err" THEN protocol
             ELSE Ok(write_message(ip_addr.bytes, src_port.bytes[1], dst_port.bytes[1],
                                   ttl.bytes[1], protocol.bytes[1]))

avg_probe_size == 64

\* The loop of deserialize_probes_batch from probe i on.
RECURSIVE BatchLoop(_, _, _, _, _, _)
BatchLoop(json_probes, i, max_batch_size, batches, current_batch, current_batch_size) ==
    IF i > Len(json_probes)
      THEN [kind |-> "ok",
            batches |-> IF current_batch # <<>> THEN Append(batches, current_batch) ELSE batches,
            reason |-> ""]
      ELSE LET r == deserialize_json_to_capnp(json_probes[i])
           IN  IF r.kind = "err" THEN [kind |-> "err", batches |-> <<>>, reason |-> r.reason]
               ELSE IF current_batch # <<>> /\ current_batch_size + Len(r.bytes) > max_batch_size
                 THEN BatchLoop(json_probes, i + 1, max_batch_size,
                                Append(batches, current_batch), r.bytes, Len(r.bytes))
               ELSE BatchLoop(json_probes, i + 1, max_batch_size, batches,
                              current_batch \o r.bytes, current_batch_size + Len(r.bytes))

\* deserialize_probes_batch: Ok(batches), Err, or the panic of the integer
\* division by estimated_probes_per_batch = 0.
deserialize_probes_batch(json_probes, max_batch_size) ==
    IF Len(json_probes) = 0 THEN [kind |-> "ok", batches |-> <<>>, reason |-> ""]
    ELSE IF max_batch_size \div avg_probe_size = 0
      THEN [kind |-> "panic", batches |-> <<>>, reason |-> "attempt to divide by zero"]
    ELSE BatchLoop(json_probes, 1, max_batch_size, <<>>, <<>>, 0)

(***************************************************************************)
(* SpecCodec: one evaluation of deserialize_probes_batch.                  *)
(***************************************************************************)
MaxProbes == 3

JsonProbes ==
    { Arr(<<Str("192.168.1.1"), Num(12345), Num(53), Num(64), Str("tcp")>>),
      Arr(<<Str("2001:db8::1"), Num(8080), Num(443), Num(48), Str("TCP")>>),
      Arr(<<Str("invalid-ip"), Num(54321), Num(80), Num(32), Str("udp")>>),
      Arr(<<Str("192.168.1.2"), Num(0), Num(80), Num(32), Str("udp")>>),
      Arr(<<Str("192.168.1.2"), Num(54321), Num(80)>>) }

Budgets == {0, 40, 47, 48, 50, 63, 64, 95, 96, 100, 144, 1000}

ProbeLists == UNION {[1..n -> JsonProbes] : n \in 0..MaxProbes}

CodecCall(json_probes, max_batch_size) ==
    /\ codec_call = <<>>
    /\ codec_call' = <<[json_probes |-> json_probes, max_batch_size |-> max_batch_size,
                        result |-> deserialize_probes_batch(json_probes, max_batch_size)]>>

(***************************************************************************)
(* Gateway handlers (lib.rs): the agent registry, POST /probes and the     *)
(* agents' status updates.                                                 *)
(***************************************************************************)
MaxBatchBytes == 64     \* 1_000_000 in submit_probes, scaled down

Reqs == {"r1", "r2"}

\* Uuid::new_v4(): the fresh measurement id of a request.
MeasurementOf(r) == IF r = "r1" THEN "m1" ELSE "m2"

IpV4(a, b) == [v6 |-> FALSE, segments |-> <<0, 0, 0, 0, 0, 0, a, b>>]
IpV6(segments) == [v6 |-> TRUE, segments |-> segments]

AgentMetadata(id, ip_address) == [id |-> id, ip_address |-> ip_address]

\* AgentStore: an entry per agent id, absent until the agent registers.
NoAgent == [registered |-> FALSE, health |-> None, config |-> None]

add_agent(store, id) ==
    IF store[id].registered THEN store
    ELSE [store EXCEPT ![id] = [registered |-> TRUE, health |-> None, config |-> None]]

update_health(store, id, healthy) ==
    IF store[id].registered THEN [store EXCEPT ![id].health = Some(healthy)] ELSE store

update_config(store, id, config) ==
    IF store[id].registered THEN [store EXCEPT ![id].config = Some(config)] ELSE store

\* POST /agent/register, /agent/{id}/health, /agent/{id}/config
RegisterAgent(a) ==
    /\ agent_store' = add_agent(agent_store, a)
    /\ UNCHANGED <<requests, kafka, user_id_mappings, measurement_tracking, user_limits, now>>

UpdateAgentHealth(a, healthy) ==
    /\ agent_store' = update_health(agent_store, a, healthy)
    /\ UNCHANGED <<requests, kafka, user_id_mappings, measurement_tracking, user_limits, now>>

UpdateAgentConfig(a, config) ==
    /\ agent_store' = update_config(agent_store, a, config)
    /\ UNCHANGED <<requests, kafka, user_id_mappings, measurement_tracking, user_limits, now>>

\* validate_json_probe (probe.rs 403-463): the checks in the order of the
\* code; each port is checked in full before the next field is looked at.
validate_json_probe_TtlAsPort(probe) ==
    IF probe.t # "arr" THEN Err("Probe must be a JSON array")
    ELSE IF Len(probe.items) # 5 THEN Err("Expected 5 elements")
    ELSE LET arr == probe.items
             port(idx, field_name) ==
                 IF arr[idx].t # "num" THEN Err(<<field_name, "must be a number">>)
                 ELSE IF arr[idx].n < 0 THEN Err(<<field_name, "must be a positive integer">>)
                 ELSE IF arr[idx].n = 0 \/ arr[idx].n > 65535 THEN Err(<<"Invalid", field_name>>)
                 ELSE Ok(<<>>)
         IN  IF arr[1].t # "str" THEN Err("IP address must be a string")
             ELSE IF IpAddr_from_str(arr[1].s) = None THEN Err("Invalid IP address")
             ELSE IF port(2, "Source port").kind = "err" THEN port(2, "Source port")
             ELSE IF port(3, "Destination port").kind = "err" THEN port(3, "Destination port")
             ELSE IF arr[4].t # "num" THEN Err("TTL must be a number")
             ELSE IF arr[4].n < 0 THEN Err("TTL must be a positive integer")
             ELSE IF arr[4].n = 0 \/ arr[4].n > 65535 THEN Err("Invalid TTL")
             ELSE IF arr[5].t # "str" THEN Err("Protocol must be a string")
             ELSE IF to_lowercase(arr[5].s) \notin {"tcp", "udp", "icmp", "icmpv6"}
               THEN Err("Invalid protocol")
             ELSE Ok(<<>>)

validate_json_probe(probe) ==
    IF probe.t # "arr" THEN Err("Probe must be a JSON array")
    ELSE IF Len(probe.items) # 5 THEN Err("Expected 5 elements")
    ELSE LET arr == probe.items
             port(idx, field_name) ==
                 IF arr[idx].t # "num" THEN Err(<<field_name, "must be a number">>)
                 ELSE IF arr[idx].n < 0 THEN Err(<<field_name, "must be a positive integer">>)
                 ELSE IF arr[idx].n = 0 \/ arr[idx].n > 65535 THEN Err(<<"Invalid", field_name>>)
                 ELSE Ok(<<>>)
         IN  IF arr[1].t # "str" THEN Err("IP address must be a string")
             ELSE IF IpAddr_from_str(arr[1].s) = None THEN Err("Invalid IP address")
             ELSE IF port(2, "Source port").kind = "err" THEN port(2, "Source port")
             ELSE IF port(3, "Destination port").kind = "err" THEN port(3, "Destination port")
             ELSE IF arr[4].t # "num" THEN Err("TTL must be a number")
             ELSE IF arr[4].n < 0 THEN Err("TTL must be a positive integer")
             ELSE IF arr[4].n = 0 \/ arr[4].n > 255 THEN Err("Invalid TTL")
             ELSE IF arr[5].t # "str" THEN Err("Protocol must be a string")
             ELSE IF to_lowercase(arr[5].s) \notin {"tcp", "udp", "icmp", "icmpv6"}
               THEN Err("Invalid protocol")
             ELSE Ok(<<>>)

\* format!("Probe at index {}: {}", i, err), i counted from 0
ProbeAtIndex(i, err) == [index |-> i, err |-> err]

\* The loop of validate_probes from the probe at position i (from 1) on.
RECURSIVE ValidateFrom(_, _)
ValidateFrom(probes, i) ==
    IF i > Len(probes) THEN Ok(<<>>)
    ELSE IF validate_json_probe(probes[i]).kind = "err"
      THEN Err(ProbeAtIndex(i - 1, validate_json_probe(probes[i]).reason))
    ELSE ValidateFrom(probes, i + 1)

\* validate_probes (probe.rs 227-240)
validate_probes(probes) == IF probes = <<>> THEN Ok(<<>>) ELSE ValidateFrom(probes, 1)

\* get_or_create_user_id run without interleaving (SpecUserId has its
\* interleavings): the outcomes [rows, result] from attempt number attempt on.
RECURSIVE Attempts(_, _, _)
Attempts(rows, user_hash, attempt) ==
    IF attempt >= MaxAttempts THEN {[rows |-> rows, result |-> [kind |-> "err", value |-> <<0, 0>>]]}
    ELSE UNION {IF "ok" \in create_user_id_mapping(rows, user_hash, candidate_id)
                  THEN {[rows |-> rows \cup {[user_hash |-> user_hash, user_id |-> candidate_id]},
                         result |-> [kind |-> "ok", value |-> candidate_id]]}
                  ELSE Attempts(rows, user_hash, attempt + 1)
                  : candidate_id \in IF attempt = 0
                                       THEN {generate_deterministic_user_id(user_hash)}
                                       ELSE generate_random_user_id}

get_or_create_user_id(rows, user_identifier) ==
    LET user_hash == hash_user_identifier(user_identifier)
        found     == {r.user_id : r \in {x \in rows : x.user_hash = user_hash}}
    IN  {[rows |-> rows, result |-> [kind |-> "err", value |-> <<0, 0>>]]}
        \cup IF found # {}
               THEN {[rows |-> rows, result |-> [kind |-> "ok", value |-> id]] : id \in found}
               ELSE Attempts(rows, user_hash, 0)

\* lib.rs 401-436: every IPv6 source address of the request lies in the
\* user's prefix of one of the agent's configurations; an agent that is not
\* registered or has no configuration is not checked, nor is an IPv4 address.
SourceIpsAllowed(store, metadata, user_id) ==
    \A i \in 1..Len(metadata) :
        LET agent_meta == metadata[i]
            ip_addr    == Unwrap(agent_meta.ip_address)
            agent      == store[agent_meta.id]
        IN  (ip_addr.v6 /\ agent.registered /\ agent.config # None) =>
               \E j \in 1..Len(Unwrap(agent.config)) :
                   /\ Unwrap(agent.config)[j].src_ipv6_prefix # None
                   /\ validate_user_ipv6(ip_addr.segments,
                                         Unwrap(Unwrap(agent.config)[j].src_ipv6_prefix), user_id)

AssignedAgents_IgnoreHealth(store, metadata) ==
    SelectSeq(metadata, LAMBDA agent_meta : store[agent_meta.id].registered)

\* lib.rs 477-487: the requested agents that are registered and healthy.
AssignedAgents(store, metadata) ==
    SelectSeq(metadata, LAMBDA agent_meta :
        /\ store[agent_meta.id].registered
        /\ store[agent_meta.id].health = Some(TRUE))

NoRequest == [pc |-> "idle", sub |-> "none", probes |-> <<>>, metadata |-> <<>>,
              user_id |-> <<0, 0>>, assigned_agents |-> <<>>, probe_batches |-> <<>>,
              next |-> 0, status |-> 0, total_probe_count |-> 0,
              message |-> [text |-> "", detail |-> None]]

Respond(q, status) == [q EXCEPT !.pc = "done", !.status = status]

\* The 400 answers of the validation steps, with their "message".
BadRequest(q, text, detail) ==
    [Respond(q, 400) EXCEPT !.message = [text |-> text, detail |-> detail]]

\* submit_probes, lib.rs 349-436: request validation, the user's tag, the
\* source address check.
Submit(r, sub, probes, metadata) ==
    LET q == [NoRequest EXCEPT !.sub = sub, !.probes = probes, !.metadata = metadata]
    IN  /\ requests[r].pc = "idle"
        /\ IF probes = <<>> \/ validate_probes(probes).kind = "err"
              \/ (\E i \in 1..Len(metadata) : metadata[i].ip_address = None)
             THEN /\ requests' = [requests EXCEPT ![r] =
                        IF probes = <<>> THEN BadRequest(q, "Probe list cannot be empty", None)
                        ELSE IF validate_probes(probes).kind = "err"
                          THEN BadRequest(q, "Probe validation failed",
                                          Some(validate_probes(probes).reason))
                        ELSE BadRequest(q, "IP address is required for agent", None)]
                  /\ UNCHANGED user_id_mappings
             ELSE \E o \in get_or_create_user_id(user_id_mappings, sub) :
                    /\ user_id_mappings' = o.rows
                    /\ requests' = [requests EXCEPT ![r] =
                          IF o.result.kind = "err" THEN Respond(q, 500)
                          ELSE IF ~SourceIpsAllowed(agent_store, metadata, o.result.value)
                            THEN Respond([q EXCEPT !.user_id = o.result.value], 403)
                          ELSE [q EXCEPT !.pc = "quota", !.user_id = o.result.value]]
        /\ UNCHANGED <<agent_store, kafka, measurement_tracking, user_limits, now>>

\* The rows are written for the requested agents once the quota check has
\* passed, before the healthy agents are chosen.
Admit_TrackRequested(r) ==
    LET q               == requests[r]
        can_submit      == can_user_submit_probes(measurement_tracking, user_limits, now,
                                                  q.sub, Len(q.probes), None)
        assigned_agents == AssignedAgents(agent_store, q.metadata)
        encoded         == deserialize_probes_batch(q.probes, MaxBatchBytes)
    IN  /\ q.pc = "quota"
        /\ \/ /\ requests' = [requests EXCEPT ![r] = Respond(q, 500)]
              /\ UNCHANGED measurement_tracking
           \/ /\ requests' = [requests EXCEPT ![r] =
                    IF ~can_submit THEN Respond(q, 429)
                    ELSE IF assigned_agents = <<>> THEN Respond(q, 400)
                    ELSE IF encoded.kind = "err" THEN Respond(q, 400)
                    ELSE IF encoded.kind = "panic" THEN [q EXCEPT !.pc = "panicked"]
                    ELSE [q EXCEPT !.pc = "publish", !.next = 1,
                                   !.assigned_agents = assigned_agents,
                                   !.probe_batches = encoded.batches]]
              /\ measurement_tracking' =
                    IF can_submit /\ q.metadata # <<>>
                      THEN create_measurement_tracking(measurement_tracking, now,
                                                       hash_user_identifier(q.sub),
                                                       MeasurementOf(r), q.metadata[1].id,
                                                       Len(q.probes))
                      ELSE measurement_tracking
        /\ UNCHANGED <<agent_store, kafka, user_id_mappings, user_limits, now>>

\* submit_probes, lib.rs 439-515: the quota check, the choice of the agents,
\* the encoding of the probes.
Admit(r) ==
    LET q               == requests[r]
        can_submit      == can_user_submit_probes(measurement_tracking, user_limits, now,
                                                  q.sub, Len(q.probes), None)
        assigned_agents == AssignedAgents(agent_store, q.metadata)
        encoded         == deserialize_probes_batch(q.probes, MaxBatchBytes)
    IN  /\ q.pc = "quota"
        /\ \/ requests' = [requests EXCEPT ![r] = Respond(q, 500)]
           \/ requests' = [requests EXCEPT ![r] =
                 IF ~can_submit THEN Respond(q, 429)
                 ELSE IF assigned_agents = <<>> THEN Respond(q, 400)
                 ELSE IF encoded.kind = "err" THEN Respond(q, 400)
                 ELSE IF encoded.kind = "panic" THEN [q EXCEPT !.pc = "panicked"]
                 ELSE [q EXCEPT !.pc = "tracking", !.next = 1,
                                !.assigned_agents = assigned_agents,
                                !.probe_batches = encoded.batches]]
        /\ UNCHANGED <<agent_store, kafka, user_id_mappings, measurement_tracking, user_limits, now>>

Track_AbortOnFailure(r) ==
    LET q == requests[r]
    IN  /\ q.pc = "tracking"
        /\ \/ /\ measurement_tracking' =
                    create_measurement_tracking(measurement_tracking, now,
                                                hash_user_identifier(q.sub), MeasurementOf(r),
                                                q.assigned_agents[q.next].id, Len(q.probes))
              /\ requests' = [requests EXCEPT ![r] =
                    IF q.next < Len(q.assigned_agents) THEN [q EXCEPT !.next = q.next + 1]
                    ELSE [q EXCEPT !.pc = "publish", !.next = 1]]
           \/ /\ UNCHANGED measurement_tracking
              /\ requests' = [requests EXCEPT ![r] = Respond(q, 500)]
        /\ UNCHANGED <<agent_store, kafka, user_id_mappings, user_limits, now>>

\* submit_probes, lib.rs 518-537: the tracking row of the next assigned
\* agent; a failed INSERT is logged and the loop goes on.
Track(r) ==
    LET q == requests[r]
    IN  /\ q.pc = "tracking"
        /\ \/ measurement_tracking' =
                 create_measurement_tracking(measurement_tracking, now,
                                             hash_user_identifier(q.sub), MeasurementOf(r),
                                             q.assigned_agents[q.next].id, Len(q.probes))
           \/ UNCHANGED measurement_tracking
        /\ requests' = [requests EXCEPT ![r] =
              IF q.next < Len(q.assigned_agents) THEN [q EXCEPT !.next = q.next + 1]
              ELSE [q EXCEPT !.pc = "publish", !.next = 1]]
        /\ UNCHANGED <<agent_store, kafka, user_id_mappings, user_limits, now>>

Headers_AssignedOnly(q, measurement_id, is_last_batch) ==
    [i \in 1..Len(q.assigned_agents) |->
        [key |-> q.assigned_agents[i].id,
         src_ip |-> q.assigned_agents[i].ip_address,
         measurement_id |-> measurement_id,
         end_of_measurement |-> is_last_batch]]

Headers_EveryBatchLast(q, measurement_id, is_last_batch) ==
    [i \in 1..Len(q.metadata) |->
        [key |-> q.metadata[i].id,
         src_ip |-> q.metadata[i].ip_address,
         measurement_id |-> measurement_id,
         end_of_measurement |-> TRUE]]

\* The headers of one batch: one per agent of the request's metadata.
Headers(q, measurement_id, is_last_batch) ==
    [i \in 1..Len(q.metadata) |->
        [key |-> q.metadata[i].id,
         src_ip |-> q.metadata[i].ip_address,
         measurement_id |-> measurement_id,
         end_of_measurement |-> is_last_batch]]

Publish_SkipFailedBatch(r) ==
    LET q             == requests[r]
        total_batches == Len(q.probe_batches)
        is_last_batch == q.next = total_batches
    IN  /\ q.pc = "publish"
        /\ \/ /\ kafka' = Append(kafka, [key |-> MeasurementOf(r),
                                        payload |-> q.probe_batches[q.next],
                                        headers |-> Headers(q, MeasurementOf(r), is_last_batch)])
              /\ requests' = [requests EXCEPT ![r] =
                    IF is_last_batch
                      THEN [Respond(q, 200) EXCEPT
                              !.total_probe_count = Len(q.probes) * Len(q.assigned_agents)]
                      ELSE [q EXCEPT !.next = q.next + 1]]
           \/ /\ requests' = [requests EXCEPT ![r] =
                    IF is_last_batch THEN Respond(q, 500) ELSE [q EXCEPT !.next = q.next + 1]]
              /\ UNCHANGED kafka
        /\ UNCHANGED <<agent_store, user_id_mappings, measurement_tracking, user_limits, now>>

Publish_RollBackOnFailure(r) ==
    LET q             == requests[r]
        total_batches == Len(q.probe_batches)
        is_last_batch == q.next = total_batches
    IN  /\ q.pc = "publish"
        /\ \/ /\ kafka' = Append(kafka, [key |-> MeasurementOf(r),
                                        payload |-> q.probe_batches[q.next],
                                        headers |-> Headers(q, MeasurementOf(r), is_last_batch)])
              /\ requests' = [requests EXCEPT ![r] =
                    IF is_last_batch
                      THEN [Respond(q, 200) EXCEPT
                              !.total_probe_count = Len(q.probes) * Len(q.assigned_agents)]
                      ELSE [q EXCEPT !.next = q.next + 1]]
              /\ UNCHANGED measurement_tracking
           \/ /\ requests' = [requests EXCEPT ![r] = Respond(q, 500)]
              /\ measurement_tracking' =
                    SelectSeq(measurement_tracking,
                              LAMBDA row : row.measurement_id # MeasurementOf(r))
              /\ UNCHANGED kafka
        /\ UNCHANGED <<agent_store, user_id_mappings, user_limits, now>>

\* submit_probes, lib.rs 540-618: the next batch is sent; after the last one
\* the response is written.  A failed send ends the request with 500.
Publish(r) ==
    LET q             == requests[r]
        total_batches == Len(q.probe_batches)
        is_last_batch == q.next = total_batches
    IN  /\ q.pc = "publish"
        /\ \/ /\ kafka' = Append(kafka, [key |-> MeasurementOf(r),
                                        payload |-> q.probe_batches[q.next],
                                        headers |-> Headers(q, MeasurementOf(r), is_last_batch)])
              /\ requests' = [requests EXCEPT ![r] =
                    IF is_last_batch
                      THEN [Respond(q, 200) EXCEPT
                              !.total_probe_count = Len(q.probes) * Len(q.assigned_agents)]
                      ELSE [q EXCEPT !.next = q.next + 1]]
           \/ /\ requests' = [requests EXCEPT ![r] = Respond(q, 500)]
              /\ UNCHANGED kafka
        /\ UNCHANGED <<agent_store, user_id_mappings, measurement_tracking, user_limits, now>>

\* update_measurement_status (lib.rs 713-797): 404 without a row of the
\* agent, else the row is overwritten with the agent's report.
UpdateStatus(agent_id, measurement_id, sent_probes, is_complete) ==
    LET tracking_entry == get_measurement_tracking_by_agent(measurement_tracking,
                                                            measurement_id, agent_id)
    IN  /\ measurement_tracking' =
              IF tracking_entry = None THEN measurement_tracking
              ELSE update_measurement_probe_count(measurement_tracking, now, measurement_id,
                                                  Unwrap(tracking_entry).user_hash, agent_id,
                                                  sent_probes, is_complete)
        /\ UNCHANGED <<agent_store, requests, kafka, user_id_mappings, user_limits, now>>

(***************************************************************************)
(* Spec: the gateway serving two requests and two agents.  alice has a     *)
(* configured limit of ProbeLimit probes a day, carol the default.         *)
(***************************************************************************)
ProbeLimit == 3

GatewayUsers == {"alice", "carol"}

ValidProbe1 == Arr(<<Str("192.168.1.1"), Num(12345), Num(53), Num(64), Str("tcp")>>)
ValidProbe2 == Arr(<<Str("2001:db8::1"), Num(8080), Num(443), Num(48), Str("TCP")>>)
BadProbe    == Arr(<<Str("invalid-ip"), Num(54321), Num(80), Num(32), Str("udp")>>)

AgentPrefix == Text(<<Hex(8193), Hex(3512), Hex(4660), Gap>>, Some(48))   \* 2001:db8:1234::/48

SubmitProbesRequest(metadata, probes) == [metadata |-> metadata, probes |-> probes]

\* The request bodies tried.  2001:db8:1234:0:3ed::1 lies in the prefix of
\* tag 1005 (alice) under AgentPrefix.
RequestBodies ==
    { SubmitProbesRequest(<<AgentMetadata("a1", Some(IpV4(49320, 257)))>>, <<ValidProbe1>>),
      SubmitProbesRequest(<<AgentMetadata("a1", Some(IpV4(49320, 257))),
                            AgentMetadata("a2", Some(IpV4(49320, 258)))>>,
                          <<ValidProbe1, ValidProbe2>>),
      SubmitProbesRequest(<<AgentMetadata("a1", Some(IpV4(49320, 257)))>>, <<>>),
      SubmitProbesRequest(<<AgentMetadata("a1", Some(IpV4(49320, 257)))>>,
                          <<ValidProbe1, BadProbe>>),
      SubmitProbesRequest(<<AgentMetadata("a1", None)>>, <<ValidProbe1>>),
      SubmitProbesRequest(<<>>, <<ValidProbe1>>),
      SubmitProbesRequest(<<AgentMetadata("a2", Some(IpV4(49320, 258))),
                            AgentMetadata("a2", Some(IpV4(49320, 258)))>>,
                          <<ValidProbe1>>),
      SubmitProbesRequest(<<AgentMetadata("a1", Some(IpV6(<<8193, 3512, 4660, 0, 1005, 0, 0, 1>>)))>>,
                          <<ValidProbe1>>) }

\* The first request is alice's; the second is hers or another user's and
\* arrives once the first has been received.
CallersOf(r) == IF r = "r1" THEN {"alice"} ELSE GatewayUsers

AgentConfigs == {<<[src_ipv6_prefix |-> Some(AgentPrefix)]>>}

\* The agent whose registration, health and configuration change; the other
\* one is registered and healthy throughout.
ReportingAgents == {"a1"}

\* UpdateMeasurementStatusRequest.sent_probes is an i32: the values posted.
ReportedSentProbes == {-1, 25}

\* The measurement the reporting agent sends status updates for.
ReportedMeasurements == {MeasurementOf("r1")}

GatewayIdle ==
    /\ agent_store = [a \in Agents |-> NoAgent]
    /\ requests = [r \in Reqs |-> NoRequest]
    /\ kafka = <<>>

(***************************************************************************)
(* The agent registry with secrets and last_seen, the agent-facing API     *)
(* behind validate_agent_key (lib.rs 71-117, 294-340, 713-797), the reads  *)
(* of the registry (lib.rs 120-123, 250-258) and the sweep of stale agents *)
(* (main.rs 190-202).  A header value is its sequence of characters.       *)
(***************************************************************************)
MaxClock == 3
MaxAge   == 1     \* chrono::Duration::minutes(10) in main.rs, in clock units

Secrets == {"s3cr3t", "0ther"}

Bearer == <<"B", "e", "a", "r", "e", "r", " ">>

\* AppState.agent_key
agent_key == <<"k", "1">>

Agent(id, secret, config, health, last_seen) ==
    [id |-> id, secret |-> secret, config |-> config, health |-> health,
     last_seen |-> last_seen]

\* HealthStatus { healthy, last_check, message }
HealthStatus(healthy) == [healthy |-> healthy, message |-> None]

\* AgentStore::new
AgentStore_new == [a \in Agents |-> None]

\* AgentStore::add_agent(id, secret), called at time t
AgentStore_add_agent_Overwrite(agents, id, secret, t) ==
    [agents |-> [agents EXCEPT ![id] = Some(Agent(id, secret, None, None, t))],
     result |-> "ok"]

AgentStore_add_agent(agents, id, secret, t) ==
    IF agents[id] # None
      THEN IF Unwrap(agents[id]).secret = secret
             THEN [agents |-> agents, result |-> "ok"]
             ELSE [agents |-> agents, result |-> "err"]
      ELSE [agents |-> [agents EXCEPT ![id] = Some(Agent(id, secret, None, None, t))],
            result |-> "ok"]

AgentStore_get(agents, id) == agents[id]

\* AgentStore::list_all: the values of the map, in no order
AgentStore_list_all(agents) == {Unwrap(agents[a]) : a \in {x \in Agents : agents[x] # None}}

AgentStore_update_config_KeepLastSeen(agents, id, config, t) ==
    IF agents[id] = None THEN agents
    ELSE [agents EXCEPT ![id] = Some([Unwrap(agents[id]) EXCEPT !.config = Some(config)])]

AgentStore_update_config(agents, id, config, t) ==
    IF agents[id] = None THEN agents
    ELSE [agents EXCEPT ![id] =
            Some([Unwrap(agents[id]) EXCEPT !.config = Some(config), !.last_seen = t])]

AgentStore_update_health(agents, id, health, t) ==
    IF agents[id] = None THEN agents
    ELSE [agents EXCEPT ![id] =
            Some([Unwrap(agents[id]) EXCEPT !.health = Some(health), !.last_seen = t])]

\* AgentStore::remove_stale_agents(max_age), called at time t
remove_stale_agents(agents, max_age, t) ==
    LET stale == {a \in Agents : agents[a] # None /\ t - Unwrap(agents[a]).last_seen > max_age}
    IN  [agents |-> [a \in Agents |-> IF a \in stale THEN None ELSE agents[a]],
         removed |-> stale]

\* <Agent as Serialize>: the JSON object of an agent
Serialize_Agent_WithSecret(agent) ==
    [id |-> agent.id, secret |-> agent.secret, config |-> agent.config,
     health |-> agent.health, last_seen |-> agent.last_seen]

Serialize_Agent(agent) ==
    [id |-> agent.id, config |-> agent.config, health |-> agent.health,
     last_seen |-> agent.last_seen]

\* str::strip_prefix
strip_prefix(s, prefix) ==
    IF Len(s) >= Len(prefix) /\ SubSeq(s, 1, Len(prefix)) = prefix
      THEN Some(SubSeq(s, Len(prefix) + 1, Len(s)))
      ELSE None

validate_agent_key_AnyKey(authorization) ==
    LET auth_header == IF authorization = None THEN None
                       ELSE strip_prefix(Unwrap(authorization), Bearer)
    IN  auth_header # None

\* validate_agent_key (lib.rs 99-117): TRUE when the request is passed on to
\* its handler, FALSE when it is answered 401.
validate_agent_key(authorization) ==
    LET auth_header == IF authorization = None THEN None
                       ELSE strip_prefix(Unwrap(authorization), Bearer)
    IN  auth_header # None /\ Unwrap(auth_header) = agent_key

Response(endpoint, authorization, request, status, body) ==
    [endpoint |-> endpoint, authorization |-> authorization, request |-> request,
     status |-> status, body |-> body]

NoResponse == Response("none", None, None, 0, None)

\* The answer of the middleware to a request it does not pass on.
Unauthorized(endpoint, authorization, request) ==
    /\ agent_out' = Response(endpoint, authorization, request, 401, None)
    /\ UNCHANGED <<registry, measurement_tracking, now>>

\* POST /agent-api/agent/register
PostRegister(authorization, id, secret) ==
    LET request == Some([id |-> id, secret |-> secret])
        added   == AgentStore_add_agent(registry, id, secret, now)
    IN  IF ~validate_agent_key(authorization)
          THEN Unauthorized("register", authorization, request)
          ELSE /\ registry' = added.agents
               /\ agent_out' =
                     IF added.result = "ok"
                       THEN Response("register", authorization, request, 200,
                                     Some(Serialize_Agent(Unwrap(AgentStore_get(added.agents, id)))))
                       ELSE Response("register", authorization, request, 409, None)
               /\ UNCHANGED <<measurement_tracking, now>>

\* POST /agent-api/agent/{id}/config
PostConfig(authorization, id, config) ==
    LET request == Some([id |-> id])
    IN  IF ~validate_agent_key(authorization)
          THEN Unauthorized("config", authorization, request)
          ELSE /\ registry' = AgentStore_update_config(registry, id, config, now)
               /\ agent_out' =
                     IF AgentStore_get(registry, id) = None
                       THEN Response("config", authorization, request, 404, None)
                       ELSE Response("config", authorization, request, 200, Some(config))
               /\ UNCHANGED <<measurement_tracking, now>>

\* POST /agent-api/agent/{id}/health
PostHealth(authorization, id, health) ==
    LET request == Some([id |-> id])
    IN  IF ~validate_agent_key(authorization)
          THEN Unauthorized("health", authorization, request)
          ELSE /\ registry' = AgentStore_update_health(registry, id, health, now)
               /\ agent_out' =
                     IF AgentStore_get(registry, id) = None
                       THEN Response("health", authorization, request, 404, None)
                       ELSE Response("health", authorization, request, 200, Some(health))
               /\ UNCHANGED <<measurement_tracking, now>>

\* POST /agent-api/agent/{id}/measurement/{measurement_id}/status
PostMeasurementStatus(authorization, agent_id, measurement_id, sent_probes, is_complete) ==
    LET request        == Some([id |-> agent_id])
        tracking_entry == get_measurement_tracking_by_agent(measurement_tracking,
                                                            measurement_id, agent_id)
    IN  IF ~validate_agent_key(authorization)
          THEN Unauthorized("status", authorization, request)
          ELSE /\ measurement_tracking' =
                     IF tracking_entry = None THEN measurement_tracking
                     ELSE update_measurement_probe_count(
                              measurement_tracking, now, measurement_id,
                              Unwrap(tracking_entry).user_hash, agent_id,
                              sent_probes, is_complete)
               /\ agent_out' =
                     IF tracking_entry = None
                       THEN Response("status", authorization, request, 404, None)
                       ELSE Response("status", authorization, request, 200,
                                     Some([sent_probes |-> sent_probes,
                                           is_complete |-> is_complete]))
               /\ UNCHANGED <<registry, now>>

\* GET /api/agents
GetAgents ==
    /\ agent_out' = Response("agents", None, None, 200,
                             Some({Serialize_Agent(a) : a \in AgentStore_list_all(registry)}))
    /\ UNCHANGED <<registry, measurement_tracking, now>>

\* GET /api/agent/{id}
GetAgent(id) ==
    /\ agent_out' =
          IF AgentStore_get(registry, id) = None
            THEN Response("agent", None, Some([id |-> id]), 404, None)
            ELSE Response("agent", None, Some([id |-> id]), 200,
                          Some(Serialize_Agent(Unwrap(AgentStore_get(registry, id)))))
    /\ UNCHANGED <<registry, measurement_tracking, now>>

\* One round of the cleanup task of main.rs.
Sweep ==
    LET swept == remove_stale_agents(registry, MaxAge, now)
    IN  /\ registry' = swept.agents
        /\ agent_out' = Response("sweep", None, None, 0, Some(swept.removed))
        /\ UNCHANGED <<measurement_tracking, now>>

\* Time passes.
Elapse ==
    /\ now < MaxClock
    /\ now' = now + 1
    /\ UNCHANGED <<registry, agent_out, measurement_tracking>>

\* The Authorization headers tried: none, the key, another key, the key
\* without "Bearer ", the key after "bearer ".
Authorizations ==
    { None,
      Some(Bearer \o agent_key),
      Some(Bearer \o <<"k", "2">>),
      Some(agent_key),
      Some(<<"b", "e", "a", "r", "e", "r", " ">> \o agent_key) }

\* The agent that sends requests; the other one registered before and is
\* silent.
ActiveAgents == {"a1"}

AgentsIdle ==
    /\ registry = AgentStore_new
    /\ agent_out = NoResponse

(***************************************************************************)
(* The JWKS cache (jwt.rs 43-52, 144-187).  A JwtValidator is the key set  *)
(* it was built from; a task is at one of the awaits of get_or_create.     *)
(***************************************************************************)
JWKS_CACHE_DURATION == 1     \* Duration::from_secs(12 * 60 * 60): the clock unit is 12 hours

JwtTasks == {"j1", "j2", "j3"}

\* The key sets the JWKS endpoint serves over time.
KeySets == {"jwks-a", "jwks-b"}

NoTask == [pc |-> "idle", validator |-> None, result |-> "none"]

\* jwt.rs 152-158: the decision taken under the read lock of LAST_JWKS_REFRESH
should_refresh(last_refresh, t) ==
    IF last_refresh = None THEN TRUE
    ELSE t - Unwrap(last_refresh) > JWKS_CACHE_DURATION

\* A task holds the write lock of JWKS_CACHE from its store to its stamp.
CacheWriteLocked == \E j \in JwtTasks : validators[j].pc = "stamp"

\* jwt.rs 150-160: get_or_create is entered and should_refresh is computed;
\* the read lock is released at the end of the block.
CheckRefresh(j) ==
    /\ validators[j].pc = "idle"
    /\ validators' = [validators EXCEPT ![j].pc =
          IF should_refresh(LAST_JWKS_REFRESH, now) THEN "fetch" ELSE "read"]
    /\ UNCHANGED <<JWKS_CACHE, LAST_JWKS_REFRESH, now>>

\* jwt.rs 163: Self::new().await?, the HTTP fetch of the JWKS; a failure is
\* returned to the caller and leaves the cache as it is.
FetchJwks(j) ==
    /\ validators[j].pc = "fetch"
    /\ \/ \E keys \in KeySets :
            validators' = [validators EXCEPT ![j].pc = "store", ![j].validator = Some(keys)]
       \/ validators' = [validators EXCEPT ![j].pc = "done", ![j].result = "err"]
    /\ UNCHANGED <<JWKS_CACHE, LAST_JWKS_REFRESH, now>>

\* jwt.rs 167-168: the cache is written under its write lock.
StoreCache(j) ==
    /\ validators[j].pc = "store"
    /\ ~CacheWriteLocked
    /\ JWKS_CACHE' = validators[j].validator
    /\ validators' = [validators EXCEPT ![j].pc = "stamp"]
    /\ UNCHANGED <<LAST_JWKS_REFRESH, now>>

\* jwt.rs 170-174: the refresh time is written, both locks are released and
\* the new validator is returned.
StoreStamp(j) ==
    /\ validators[j].pc = "stamp"
    /\ LAST_JWKS_REFRESH' = Some(now)
    /\ validators' = [validators EXCEPT ![j].pc = "done", ![j].result = "ok"]
    /\ UNCHANGED <<JWKS_CACHE, now>>

\* jwt.rs 175-186: the cached validator is returned; with an empty cache the
\* keys are fetched and returned without being cached.
ReadCache(j) ==
    /\ validators[j].pc = "read"
    /\ ~CacheWriteLocked
    /\ IF JWKS_CACHE # None
         THEN validators' = [validators EXCEPT ![j].pc = "done", ![j].result = "ok",
                                               ![j].validator = JWKS_CACHE]
         ELSE \/ \E keys \in KeySets :
                   validators' = [validators EXCEPT ![j].pc = "done", ![j].result = "ok",
                                                    ![j].validator = Some(keys)]
              \/ validators' = [validators EXCEPT ![j].pc = "done", ![j].result = "err"]
    /\ UNCHANGED <<JWKS_CACHE, LAST_JWKS_REFRESH, now>>

\* Time passes.
JwksElapse ==
    /\ now < MaxClock
    /\ now' = now + 1
    /\ UNCHANGED <<JWKS_CACHE, LAST_JWKS_REFRESH, validators>>

JwksIdle ==
    /\ JWKS_CACHE = None
    /\ LAST_JWKS_REFRESH = None
    /\ validators = [j \in JwtTasks |-> NoTask]

(***************************************************************************)
(* Specifications.                                                         *)
(***************************************************************************)
PrefixIdle == prefix_call = <<>>
CodecIdle  == codec_call = <<>>

OtherThanUserId == <<dbVars, gatewayVars, prefix_call, codec_call, agentVars, jwksVars>>
OtherThanDb     == <<userIdVars, gatewayVars, prefix_call, codec_call, agentVars, jwksVars>>
OtherThanPrefix == <<userIdVars, dbVars, gatewayVars, codec_call, agentVars, jwksVars>>
OtherThanCodec  == <<userIdVars, dbVars, gatewayVars, prefix_call, agentVars, jwksVars>>
OtherThanGateway == <<callers, prefix_call, codec_call, agentVars, jwksVars>>
OtherThanAgents == <<userIdVars, user_limits, gatewayVars, prefix_call, codec_call, jwksVars>>
OtherThanJwks   == <<userIdVars, measurement_tracking, user_limits, gatewayVars, prefix_call,
                     codec_call, agentVars>>

AllIdle == /\ UserIdIdle /\ DbIdle /\ GatewayIdle /\ PrefixIdle /\ CodecIdle
           /\ AgentsIdle /\ JwksIdle

InitUserId == AllIdle

NextUserId ==
    \/ \E t \in Callers, s \in Subjects : Call(t, s) /\ UNCHANGED OtherThanUserId
    \/ \E t \in Callers : Lookup(t) /\ UNCHANGED OtherThanUserId
    \/ \E t \in Callers : Insert(t) /\ UNCHANGED OtherThanUserId
    \/ \E t \in Callers : InsertError(t) /\ UNCHANGED OtherThanUserId
    \/ \E t \in Callers : Reread(t) /\ UNCHANGED OtherThanUserId
    \/ \E t \in Callers : Finish(t) /\ UNCHANGED OtherThanUserId

SpecUserId == InitUserId /\ [][NextUserId]_vars

\* One task of get_or_create_user_id: each await of the function completes
\* (the database answers every query, with a row, a conflict or an error),
\* so a task that can take a step eventually takes one.
UserIdStep(t) == Lookup(t) \/ Insert(t) \/ InsertError(t) \/ Reread(t)

\* The users whose calls are followed to their end: alice and carol hold the
\* tags 1005 and 2255, which bob's first candidate and the random draws meet.
LiveSubjects == {"alice", "bob", "carol"}

NextUserIdLive ==
    \/ \E t \in Callers, s \in LiveSubjects : Call(t, s) /\ UNCHANGED OtherThanUserId
    \/ \E t \in Callers : Lookup(t) /\ UNCHANGED OtherThanUserId
    \/ \E t \in Callers : Insert(t) /\ UNCHANGED OtherThanUserId
    \/ \E t \in Callers : InsertError(t) /\ UNCHANGED OtherThanUserId
    \/ \E t \in Callers : Reread(t) /\ UNCHANGED OtherThanUserId
    \/ \E t \in Callers : Finish(t) /\ UNCHANGED OtherThanUserId

SpecUserIdLive ==
    /\ InitUserId
    /\ [][NextUserIdLive]_vars
    /\ \A t \in Callers : WF_vars(UserIdStep(t) /\ UNCHANGED OtherThanUserId)

InitDb == AllIdle

NextDb ==
    \/ \E m \in Measurements, a \in Agents : DbCreate(m, a) /\ UNCHANGED OtherThanDb
    \/ \E m \in Measurements, u \in Users, a \in Agents, sent \in SentCounts,
          complete \in BOOLEAN :
         DbUpdate(m, u, a, sent, complete) /\ UNCHANGED OtherThanDb
    \/ \E u \in Users, l \in ProbeLimits : DbSetLimit(u, l) /\ UNCHANGED OtherThanDb
    \/ Tick /\ UNCHANGED OtherThanDb

SpecDb == InitDb /\ [][NextDb]_vars

InitPrefix == AllIdle

NextPrefix ==
    \E P \in AgentPrefixes, T \in UserTags, A \in UserIps :
        PrefixCall(P, T, A) /\ UNCHANGED OtherThanPrefix

SpecPrefix == InitPrefix /\ [][NextPrefix]_vars

InitCodec == AllIdle

NextCodec ==
    \E json_probes \in ProbeLists, max_batch_size \in Budgets :
        CodecCall(json_probes, max_batch_size) /\ UNCHANGED OtherThanCodec

SpecCodec == InitCodec /\ [][NextCodec]_vars

\* The gateway some time after start: one agent has registered and reported
\* healthy, alice's limit row has been set (Database::set_user_limit), no
\* request has arrived yet.
Init ==
    /\ UserIdIdle /\ PrefixIdle /\ CodecIdle /\ AgentsIdle /\ JwksIdle
    /\ agent_store = [a \in Agents |->
          IF a \in ReportingAgents THEN NoAgent
          ELSE [registered |-> TRUE, health |-> Some(TRUE), config |-> None]]
    /\ requests = [r \in Reqs |-> NoRequest]
    /\ kafka = <<>>
    /\ measurement_tracking = <<>>
    /\ user_limits = set_user_limit({}, "alice", ProbeLimit)
    /\ now = 0

Next ==
    \/ \E a \in Agents : RegisterAgent(a) /\ UNCHANGED OtherThanGateway
    \/ \E a \in ReportingAgents, healthy \in BOOLEAN :
         UpdateAgentHealth(a, healthy) /\ UNCHANGED OtherThanGateway
    \/ \E a \in ReportingAgents, config \in AgentConfigs :
         UpdateAgentConfig(a, config) /\ UNCHANGED OtherThanGateway
    \/ \E r \in Reqs : \E sub \in CallersOf(r), body \in RequestBodies :
         /\ r = "r2" => requests["r1"].pc # "idle"
         /\ Submit(r, sub, body.probes, body.metadata)
         /\ UNCHANGED OtherThanGateway
    \/ \E r \in Reqs : Admit(r) /\ UNCHANGED OtherThanGateway
    \/ \E r \in Reqs : Track(r) /\ UNCHANGED OtherThanGateway
    \/ \E r \in Reqs : Publish(r) /\ UNCHANGED OtherThanGateway
    \/ \E a \in ReportingAgents, m \in ReportedMeasurements, sent \in ReportedSentProbes,
          complete \in BOOLEAN :
         UpdateStatus(a, m, sent, complete) /\ UNCHANGED OtherThanGateway

Spec == Init /\ [][Next]_vars

(***************************************************************************)
(* SpecAgents: the requests of one agent, the reads of the registry, the   *)
(* sweep and the clock.  At the start the other agent has registered and a *)
(* submission of alice has left a tracking row for the active agent.       *)
(***************************************************************************)
InitAgents ==
    /\ UserIdIdle /\ GatewayIdle /\ PrefixIdle /\ CodecIdle /\ JwksIdle
    /\ registry = [a \in Agents |->
          IF a \in ActiveAgents THEN None
          ELSE Some(Agent(a, "0ther", None, None, 0))]
    /\ agent_out = NoResponse
    /\ measurement_tracking =
          create_measurement_tracking(<<>>, 0, hash_user_identifier("alice"), "m1", "a1",
                                      ExpectedOf("m1"))
    /\ user_limits = {}
    /\ now = 0

NextAgents ==
    \/ \E authorization \in Authorizations, id \in ActiveAgents, secret \in Secrets :
         PostRegister(authorization, id, secret) /\ UNCHANGED OtherThanAgents
    \/ \E authorization \in Authorizations, id \in ActiveAgents, config \in AgentConfigs :
         PostConfig(authorization, id, config) /\ UNCHANGED OtherThanAgents
    \/ \E authorization \in Authorizations, id \in ActiveAgents :
         PostHealth(authorization, id, HealthStatus(TRUE)) /\ UNCHANGED OtherThanAgents
    \/ \E authorization \in Authorizations, id \in ActiveAgents :
         PostMeasurementStatus(authorization, id, "m1", 25, TRUE) /\ UNCHANGED OtherThanAgents
    \/ GetAgents /\ UNCHANGED OtherThanAgents
    \/ \E id \in Agents : GetAgent(id) /\ UNCHANGED OtherThanAgents
    \/ Sweep /\ UNCHANGED OtherThanAgents
    \/ Elapse /\ UNCHANGED OtherThanAgents

SpecAgents == InitAgents /\ [][NextAgents]_vars

(***************************************************************************)
(* SpecJwks: three requests passing jwt_middleware, from process start.    *)
(***************************************************************************)
InitJwks == AllIdle

NextJwks ==
    \/ \E j \in JwtTasks : CheckRefresh(j) /\ UNCHANGED OtherThanJwks
    \/ \E j \in JwtTasks : FetchJwks(j) /\ UNCHANGED OtherThanJwks
    \/ \E j \in JwtTasks : StoreCache(j) /\ UNCHANGED OtherThanJwks
    \/ \E j \in JwtTasks : StoreStamp(j) /\ UNCHANGED OtherThanJwks
    \/ \E j \in JwtTasks : ReadCache(j) /\ UNCHANGED OtherThanJwks
    \/ JwksElapse /\ UNCHANGED OtherThanJwks

SpecJwks == InitJwks /\ [][NextJwks]_vars

(***************************************************************************)
(* SpecSubmit: one POST /probes of alice, over probe lists that meet every *)
(* check of validate_json_probe.                                           *)
(***************************************************************************)
SubmittedProbes ==
    { ValidProbe1,
      Arr(<<Str("2001:db8::1"), Num(65535), Num(1), Num(255), Str("Udp")>>),
      BadProbe,
      Arr(<<Str("192.168.1.1"), Num(0), Num(53), Num(64), Str("tcp")>>),
      Arr(<<Str("192.168.1.1"), Num(12345), Num(65536), Num(64), Str("tcp")>>),
      Arr(<<Str("192.168.1.1"), Num(-1), Num(53), Num(64), Str("tcp")>>),
      Arr(<<Str("192.168.1.1"), Str("12345"), Num(53), Num(64), Str("tcp")>>),
      Arr(<<Str("192.168.1.1"), Num(12345), Num(53), Num(256), Str("tcp")>>),
      Arr(<<Str("192.168.1.1"), Num(12345), Num(53), Num(0), Str("tcp")>>),
      Arr(<<Str("192.168.1.1"), Num(12345), Num(53), Num(64), Str("gre")>>),
      Arr(<<Str("192.168.1.2"), Num(54321), Num(80)>>),
      Str("192.168.1.1") }

SubmittedLists == UNION {[1..n -> SubmittedProbes] : n \in 0..MaxProbes}

SubmittedMetadata ==
    { <<AgentMetadata("a2", Some(IpV4(49320, 258)))>>,
      <<AgentMetadata("a2", None)>> }

InitSubmit == Init

NextSubmit ==
    \/ /\ requests["r1"].pc = "idle"
       /\ \E probes \in SubmittedLists, metadata \in SubmittedMetadata :
            Submit("r1", "alice", probes, metadata) /\ UNCHANGED OtherThanGateway
    \/ Admit("r1") /\ UNCHANGED OtherThanGateway
    \/ Track("r1") /\ UNCHANGED OtherThanGateway
    \/ Publish("r1") /\ UNCHANGED OtherThanGateway

SpecSubmit == InitSubmit /\ [][NextSubmit]_vars

(***************************************************************************)
(* SpecPublish: two POST /probes served one after the other while agent a1 *)
(* registers, reports its health and is configured.  The first request is  *)
(* alice's.  2001:db8:ffff::1 lies outside AgentPrefix.                     *)
(***************************************************************************)
PublishedBodies ==
    { SubmitProbesRequest(<<AgentMetadata("a1", Some(IpV4(49320, 257))),
                            AgentMetadata("a2", Some(IpV4(49320, 258)))>>,
                          <<ValidProbe1, ValidProbe2>>),
      SubmitProbesRequest(<<AgentMetadata("a1", Some(IpV6(<<8193, 3512, 65535, 0, 0, 0, 0, 1>>))),
                            AgentMetadata("a2", Some(IpV4(49320, 258)))>>,
                          <<ValidProbe1>>),
      SubmitProbesRequest(<<AgentMetadata("a1", Some(IpV6(<<8193, 3512, 4660, 0, 1005, 0, 0, 1>>)))>>,
                          <<ValidProbe1>>),
      SubmitProbesRequest(<<AgentMetadata("a2", Some(IpV4(49320, 258)))>>,
                          <<ValidProbe1, BadProbe>>),
      SubmitProbesRequest(<<AgentMetadata("a2", Some(IpV4(49320, 258)))>>, <<>>),
      SubmitProbesRequest(<<AgentMetadata("a2", None)>>, <<ValidProbe1>>),
      SubmitProbesRequest(<<AgentMetadata("a1", Some(IpV4(49320, 257)))>>, <<ValidProbe1>>) }

InitPublish == Init

NextPublish ==
    \/ \E a \in ReportingAgents : RegisterAgent(a) /\ UNCHANGED OtherThanGateway
    \/ \E a \in ReportingAgents, healthy \in BOOLEAN :
         UpdateAgentHealth(a, healthy) /\ UNCHANGED OtherThanGateway
    \/ \E a \in ReportingAgents, config \in AgentConfigs :
         UpdateAgentConfig(a, config) /\ UNCHANGED OtherThanGateway
    \/ \E r \in Reqs :
         /\ requests[r].pc = "idle"
         /\ r = "r2" => requests["r1"].pc = "done"
         /\ \E sub \in CallersOf(r), body \in PublishedBodies :
              Submit(r, sub, body.probes, body.metadata) /\ UNCHANGED OtherThanGateway
    \/ \E r \in Reqs : Admit(r) /\ UNCHANGED OtherThanGateway
    \/ \E r \in Reqs : Track(r) /\ UNCHANGED OtherThanGateway
    \/ \E r \in Reqs : Publish(r) /\ UNCHANGED OtherThanGateway

SpecPublish == InitPublish /\ [][NextPublish]_vars

(***************************************************************************)
(* Claims on get_or_create_user_id (SpecUserId).                           *)
(***************************************************************************)
RowsOf(subject) == {r \in user_id_mappings : r.user_hash = hash_user_identifier(subject)}

Returned(t) == callers[t].pc = "done" /\ callers[t].result.kind = "ok"

\* C1: every caller of get_or_create_user_id(s) that returns a tag returns the
\* tag of the single row the mapping holds for hash(s); so concurrent callers
\* for one subject all return the same tag and the subject has exactly one row.
C1_SameTagOneRow ==
    \A t \in Callers :
        Returned(t) =>
            RowsOf(callers[t].subject) =
                {[user_hash |-> hash_user_identifier(callers[t].subject),
                  user_id |-> callers[t].result.value]}

\* Two callers for one subject both missed the lookup; one inserted the row,
\* the other lost the race on user_hash and re-read it.
C1_Witness ==
    \E t1, t2 \in Callers :
        /\ t1 # t2
        /\ Returned(t1) /\ Returned(t2)
        /\ callers[t1].subject = callers[t2].subject
        /\ callers[t1].path = "inserted"
        /\ callers[t2].path = "reread"

\* C2: the issued mapping is injective (no tag is held by two user hashes), and
\* a caller is never returned a tag that a row of another user holds.
C2_Injective ==
    /\ \A r1, r2 \in user_id_mappings : r1.user_id = r2.user_id => r1.user_hash = r2.user_hash
    /\ \A t \in Callers :
          Returned(t) =>
              \A r \in user_id_mappings :
                  r.user_id = callers[t].result.value =>
                      r.user_hash = hash_user_identifier(callers[t].subject)

\* A caller whose deterministic candidate was held by another user retried
\* and was returned a different tag.
C2_Witness ==
    \E t \in Callers :
        /\ Returned(t)
        /\ callers[t].path = "inserted"
        /\ callers[t].attempt > 0
        /\ \E r \in user_id_mappings :
              /\ r.user_hash # hash_user_identifier(callers[t].subject)
              /\ r.user_id = generate_deterministic_user_id(hash_user_identifier(callers[t].subject))

(***************************************************************************)
(* Claims on the Database methods (SpecDb).                                *)
(***************************************************************************)
RECURSIVE WeightedCount(_, _)
WeightedCount(values, count) ==
    IF values = {} THEN 0
    ELSE LET v == Min(values) IN v * count[v] + WeightedCount(values \ {v}, count)

\* The expected probes of the user's rows created in [start, now], summed
\* value by value.
WindowTotal(u, start) ==
    LET mine == {i \in RowIndexes(measurement_tracking) :
                    /\ measurement_tracking[i].user_hash = hash_user_identifier(u)
                    /\ start <= measurement_tracking[i].created_at
                    /\ measurement_tracking[i].created_at <= now}
        values == {measurement_tracking[i].expected_probes : i \in mine}
    IN  WeightedCount(values,
            [v \in values |->
                Cardinality({i \in mine : measurement_tracking[i].expected_probes = v})])

WindowStart(days_back) ==
    IF days_back = None THEN now - (now % DayUnits) ELSE now - Unwrap(days_back) * DayUnits

ConfiguredLimit(u) ==
    LET mine == {ul \in user_limits : ul.user_hash = hash_user_identifier(u)}
    IN  IF mine = {} THEN 10000 ELSE Unwrap(mine).probe_limit

\* C3: can_user_submit_probes(user, additional, window) is true iff the sum of
\* expected_probes over the user's rows created inside the window (since UTC
\* midnight by default) plus additional is at most the user's limit (10,000
\* when none is set).
C3_AdmitIffWithinLimit ==
    \A u \in Users, additional \in Additionals, d \in DaysBack :
        can_user_submit_probes(measurement_tracking, user_limits, now, u, additional, d)
            <=> (WindowTotal(u, WindowStart(d)) + additional <= ConfiguredLimit(u))

\* With a limit of 100 and 60 probes recorded today, 40 more are admitted (the
\* sum equals the limit) and 41 are denied.
C3_Witness ==
    \E u \in Users :
        /\ ConfiguredLimit(u) = 100
        /\ WindowTotal(u, WindowStart(None)) = 60
        /\ can_user_submit_probes(measurement_tracking, user_limits, now, u, 40, None)
        /\ ~can_user_submit_probes(measurement_tracking, user_limits, now, u, 41, None)

\* The quota check of request r lets it through: it goes on to agent selection.
PassesQuota(r) ==
    /\ requests[r].pc = "quota"
    /\ \/ requests'[r].pc = "tracking"
       \/ requests'[r].pc = "panicked"
       \/ requests'[r].status = 400

\* C4 (on the gateway, Spec): a POST /probes submission of m probes is admitted only if the daily
\* total_probes recorded for its user at the moment of the check, tracking rows
\* of that user's earlier admitted submissions included, satisfies
\* total_probes + m <= limit.
C4_AdmittedOnlyWithinRecordedTotal ==
    [][\A r \in Reqs :
          PassesQuota(r) =>
              WindowTotal(requests[r].sub, WindowStart(None)) + Len(requests[r].probes)
                  <= ConfiguredLimit(requests[r].sub)]_vars

\* The first submission was admitted, its tracking rows are recorded and it
\* was answered 200; the same user's following submission has just been
\* admitted against a total that includes those rows.
C4_Witness ==
    /\ requests["r1"].status = 200
    /\ requests["r2"].sub = requests["r1"].sub
    /\ requests["r2"].pc = "tracking"
    /\ requests["r2"].next = 1
    /\ \E i \in RowIndexes(measurement_tracking) :
          measurement_tracking[i].measurement_id = MeasurementOf("r1")
    /\ \A i \in RowIndexes(measurement_tracking) :
          measurement_tracking[i].measurement_id # MeasurementOf("r2")
    /\ WindowTotal(requests["r1"].sub, WindowStart(None)) >= Len(requests["r1"].probes)
    /\ WindowTotal(requests["r1"].sub, WindowStart(None)) + Len(requests["r2"].probes)
          <= ConfiguredLimit(requests["r1"].sub)

RowsOfMeasurement(rows, m, u) ==
    {i \in RowIndexes(rows) : /\ rows[i].measurement_id = m
                              /\ rows[i].user_hash = hash_user_identifier(u)}

C5_Iff ==
    \A m \in Measurements, u \in Users :
        LET s == get_measurement_status(measurement_tracking, m, hash_user_identifier(u))
        IN  s # None =>
               (Unwrap(s).measurement_complete <=>
                   \A i \in RowsOfMeasurement(measurement_tracking, m, u) :
                       measurement_tracking[i].is_complete)

C5_Flip ==
    \A m \in Measurements, u \in Users :
        LET s0 == get_measurement_status(measurement_tracking, m, hash_user_identifier(u))
            s1 == get_measurement_status(measurement_tracking', m, hash_user_identifier(u))
            R  == RowsOfMeasurement(measurement_tracking, m, u)
        IN  (/\ s0 # None /\ s1 # None
             /\ ~Unwrap(s0).measurement_complete
             /\ Unwrap(s1).measurement_complete)
            => /\ RowsOfMeasurement(measurement_tracking', m, u) = R
               /\ \E i \in R :
                     /\ ~measurement_tracking[i].is_complete
                     /\ measurement_tracking'[i].is_complete
                     /\ \A j \in R \ {i} : measurement_tracking[j].is_complete

\* C5: get_measurement_status(m, u) reports measurement_complete = true iff
\* every tracking row of m for u has is_complete = true, and the report turns
\* from false to true only in a step in which the last incomplete row of m is
\* set complete.
C5_CompleteIffAllRows == [](C5_Iff) /\ [][C5_Flip]_vars

\* A measurement with two rows is reported complete.
C5_Witness ==
    \E m \in Measurements, u \in Users :
        LET s == get_measurement_status(measurement_tracking, m, hash_user_identifier(u))
        IN  /\ s # None
            /\ Unwrap(s).total_agents = 2
            /\ Unwrap(s).measurement_complete

\* C6: once a tracking row has is_complete = true, no later update makes it
\* false again.
C6_NeverUncompleted ==
    [][\A i \in RowIndexes(measurement_tracking) :
          measurement_tracking[i].is_complete => measurement_tracking'[i].is_complete]_vars

(***************************************************************************)
(* Claims on the prefix functions (SpecPrefix).                            *)
(***************************************************************************)
\* Bit i of an address and of a tag, bit 0 the most significant.
Bit(addr, i) == (addr[(i \div 16) + 1] \div Pow2(15 - (i % 16))) % 2

TagBit(T, i) == IF i < 16 THEN (T[1] \div Pow2(15 - i)) % 2 ELSE (T[2] \div Pow2(31 - i)) % 2

\* The address agrees with the network written in the text on its first
\* prefix-length bits.
InsideText(A, text) ==
    LET net == Ipv6Net_from_str(text)
    IN  /\ net # None
        /\ \A i \in 0..(Unwrap(net).prefix_len - 1) : Bit(A, i) = Bit(Unwrap(net).addr, i)

UsableAgentPrefix(P) ==
    Ipv6Net_from_str(P) # None /\ Unwrap(Ipv6Net_from_str(P)).prefix_len <= 96

\* C7: for an agent prefix P/L with L <= 96, a tag T and an address A,
\* validate_user_ipv6(A, P/L, T) is true iff A lies inside the network that
\* calculate_user_prefix(P/L, T) returns.
C7_ValidateIffInPrefix ==
    \A n \in 1..Len(prefix_call) :
        LET c == prefix_call[n]
        IN  UsableAgentPrefix(c.agent_prefix) =>
               /\ c.user_prefix # None
               /\ c.valid <=> InsideText(c.user_ip, Unwrap(c.user_prefix))

\* An address other than the first one of the user's network is accepted,
\* for an agent prefix whose length is not a multiple of 16.
C7_Witness ==
    \E n \in 1..Len(prefix_call) :
        LET c == prefix_call[n]
        IN  /\ UsableAgentPrefix(c.agent_prefix)
            /\ Unwrap(Ipv6Net_from_str(c.agent_prefix)).prefix_len = 44
            /\ c.valid
            /\ c.user_ip # Unwrap(Ipv6Net_from_str(Unwrap(c.user_prefix))).addr

\* C8: for an agent prefix P/L with L <= 96 and a tag T, calculate_user_prefix
\* returns the prefix of length L + 32 whose address has the first L bits of P,
\* then the 32 bits of T, then zeros (network(P) | T << (128 - L - 32));
\* 2001:db8:1234::/48 with T = 0x12345678 gives 2001:db8:1234:1234:5678::/80.
C8_PrefixIsNetworkOrTag ==
    \A n \in 1..Len(prefix_call) :
        LET c == prefix_call[n]
            L == Unwrap(Ipv6Net_from_str(c.agent_prefix)).prefix_len
            P == Unwrap(Ipv6Net_from_str(c.agent_prefix)).addr
            u == Ipv6Net_from_str(Unwrap(c.user_prefix))
        IN  /\ UsableAgentPrefix(c.agent_prefix) =>
                 /\ c.user_prefix # None
                 /\ u # None
                 /\ Unwrap(u).prefix_len = L + 32
                 /\ \A i \in 0..127 :
                       Bit(Unwrap(u).addr, i) =
                           IF i < L THEN Bit(P, i)
                           ELSE IF i < L + 32 THEN TagBit(c.user_id, i - L)
                           ELSE 0
            /\ (/\ c.agent_prefix = Text(<<Hex(8193), Hex(3512), Hex(4660), Gap>>, Some(48))
                /\ c.user_id = <<4660, 22136>>)
               => c.user_prefix =
                     Some(Text(<<Hex(8193), Hex(3512), Hex(4660), Hex(4660), Hex(22136), Gap>>,
                               Some(80)))

\* A /96 agent prefix gives a /128 user prefix.
C8_Witness ==
    \E n \in 1..Len(prefix_call) :
        LET c == prefix_call[n]
        IN  /\ UsableAgentPrefix(c.agent_prefix)
            /\ Unwrap(Ipv6Net_from_str(c.agent_prefix)).prefix_len = 96
            /\ c.user_id = <<65535, 65535>>
            /\ c.user_prefix # None
            /\ Unwrap(c.user_prefix).len = Some(128)

(***************************************************************************)
(* Claims on the probe codec (SpecCodec).                                  *)
(***************************************************************************)
RECURSIVE Concat(_)
Concat(seqs) == IF seqs = <<>> THEN <<>> ELSE Head(seqs) \o Concat(Tail(seqs))

Records(json_probes) ==
    [i \in 1..Len(json_probes) |-> deserialize_json_to_capnp(json_probes[i])]

AllValid(json_probes) ==
    \A i \in 1..Len(json_probes) : Records(json_probes)[i].kind = "ok"

RecordSizes(json_probes) ==
    {Len(Records(json_probes)[i].bytes) : i \in {j \in 1..Len(json_probes) :
                                                    Records(json_probes)[j].kind = "ok"}}

\* C9: for a sequence of valid probes and a budget B at least as large as the
\* largest encoded record, deserialize_probes_batch returns batches of at most
\* B bytes each whose concatenation is the concatenation of the records.
C9_BatchesWithinBudget ==
    \A n \in 1..Len(codec_call) :
        LET c == codec_call[n]
        IN  (/\ AllValid(c.json_probes)
             /\ \A size \in RecordSizes(c.json_probes) : size <= c.max_batch_size)
            => /\ c.result.kind = "ok"
               /\ \A b \in 1..Len(c.result.batches) :
                     Len(c.result.batches[b]) <= c.max_batch_size
               /\ Concat(c.result.batches) =
                     Concat([i \in 1..Len(c.json_probes) |-> Records(c.json_probes)[i].bytes])

\* C10: when the encoded record of some probe is larger than B,
\* deserialize_probes_batch returns an error; and no returned batch is
\* longer than B.
C10_OversizeRecordFails ==
    \A n \in 1..Len(codec_call) :
        LET c == codec_call[n]
        IN  /\ (\E size \in RecordSizes(c.json_probes) : size > c.max_batch_size)
               => c.result.kind = "err"
            /\ \A b \in 1..Len(c.result.batches) :
                  Len(c.result.batches[b]) <= c.max_batch_size

(***************************************************************************)
(* Claims on the publishing of a submission (Spec).                        *)
(***************************************************************************)
\* The messages of measurement m on the bus, in publication order.
PublishedOf(log, m) == SelectSeq(log, LAMBDA msg : msg.key = m)

\* The message carries at least one header and all of them say "last batch".
EndOfMeasurement(msg) ==
    /\ Len(msg.headers) >= 1
    /\ \A h \in 1..Len(msg.headers) : msg.headers[h].end_of_measurement

NotEndOfMeasurement(msg) ==
    /\ Len(msg.headers) >= 1
    /\ \A h \in 1..Len(msg.headers) : ~msg.headers[h].end_of_measurement

\* C11: when all k batches of a submission are published, end_of_measurement
\* is true on the k-th published batch and false on every earlier one; at most
\* one published batch of a measurement carries end_of_measurement = true, and
\* none does when a publish failed before the last batch went out.
C11_EndOfMeasurementOnLastOnly ==
    \A r \in Reqs :
        LET msgs == PublishedOf(kafka, MeasurementOf(r))
            k    == Len(requests[r].probe_batches)
        IN  /\ requests[r].status = 200 =>
                  /\ Len(msgs) = k /\ k >= 1
                  /\ EndOfMeasurement(msgs[k])
                  /\ \A i \in 1..(k - 1) : NotEndOfMeasurement(msgs[i])
            /\ Cardinality({i \in 1..Len(msgs) : ~NotEndOfMeasurement(msgs[i])}) <= 1
            /\ requests[r].status = 500 => \A i \in 1..Len(msgs) : NotEndOfMeasurement(msgs[i])

\* A submission of two batches answered 200: the first published batch says
\* "not the end", the second says "the end".
C11_Witness ==
    \E r \in Reqs :
        LET msgs == PublishedOf(kafka, MeasurementOf(r))
        IN  /\ requests[r].status = 200
            /\ Len(requests[r].probe_batches) = 2
            /\ Len(msgs) = 2
            /\ NotEndOfMeasurement(msgs[1])
            /\ EndOfMeasurement(msgs[2])

IsPrefix(s, t) == Len(s) <= Len(t) /\ \A i \in 1..Len(s) : s[i] = t[i]

Payloads(msgs) == [i \in 1..Len(msgs) |-> msgs[i].payload]

PublishedPrefix(r) ==
    IsPrefix(Payloads(PublishedOf(kafka, MeasurementOf(r))), requests[r].probe_batches)

\* C12: the published batches of a measurement are always a prefix of the
\* batch sequence the codec produced (in order, each at most once); a step
\* publishes at most one batch; when the publish of batch i fails the request
\* is answered 500, and once a request is answered nothing more of its
\* measurement is published.
C12_PublishedIsPrefix ==
    /\ [](\A r \in Reqs : PublishedPrefix(r))
    /\ [][\A r \in Reqs :
            LET before == PublishedOf(kafka, MeasurementOf(r))
                after  == PublishedOf(kafka', MeasurementOf(r))
            IN  /\ Len(after) <= Len(before) + 1
                /\ IsPrefix(before, after)
                /\ requests[r].pc = "done" => after = before
                /\ (requests[r].pc = "publish" /\ requests'[r].pc # "publish" /\ after = before)
                      => requests'[r].status = 500]_vars

\* Batch 1 of 2 went out, the publish of batch 2 failed: answered 500 with
\* exactly the first batch on the bus.
C12_Witness ==
    \E r \in Reqs :
        /\ requests[r].status = 500
        /\ Len(requests[r].probe_batches) = 2
        /\ Payloads(PublishedOf(kafka, MeasurementOf(r))) = <<requests[r].probe_batches[1]>>

\* The part of a tracking row that usage accounting reads.
Accounted(row) ==
    [user_hash |-> row.user_hash, measurement_id |-> row.measurement_id,
     agent_id |-> row.agent_id, expected_probes |-> row.expected_probes,
     created_at |-> row.created_at]

\* C13: the step in which a publish fails (500) leaves the tracking rows and
\* the bus as they are; no step ever removes a tracking row, changes what a
\* row counts toward its user's usage, or removes a published batch.
C13_FailedPublishKeepsRowsAndBatches ==
    [][/\ \A r \in Reqs :
             (requests[r].pc = "publish" /\ requests'[r].status = 500) =>
                 /\ measurement_tracking' = measurement_tracking
                 /\ kafka' = kafka
       /\ IsPrefix(kafka, kafka')
       /\ Len(measurement_tracking) <= Len(measurement_tracking')
       /\ \A i \in RowIndexes(measurement_tracking) :
             Accounted(measurement_tracking'[i]) = Accounted(measurement_tracking[i])]_vars

\* A publish failed after the first batch: answered 500, the row of the
\* measurement and the first batch are still there and the row still counts
\* toward the user's usage of the day.
C13_Witness ==
    \E r \in Reqs :
        /\ requests[r].status = 500
        /\ Len(PublishedOf(kafka, MeasurementOf(r))) = 1
        /\ \E i \in RowIndexes(measurement_tracking) :
              measurement_tracking[i].measurement_id = MeasurementOf(r)
        /\ WindowTotal(requests[r].sub, WindowStart(None)) >= Len(requests[r].probes)
        /\ Len(requests[r].probes) >= 1

(***************************************************************************)
(* Claims on the source address step and the agent selection (Spec).       *)
(***************************************************************************)
\* The configurations of an agent; none for an agent that is not registered
\* or has not sent any.
ConfigsOf(store, id) ==
    IF store[id].registered /\ store[id].config # None THEN Unwrap(store[id].config) ELSE <<>>

\* Every IPv6 source address of the request validates against a configuration
\* of its agent that has a src_ipv6_prefix.
SomeConfigValidates(store, metadata, user_id) ==
    \A i \in 1..Len(metadata) :
        Unwrap(metadata[i].ip_address).v6 =>
            \E j \in 1..Len(ConfigsOf(store, metadata[i].id)) :
                LET agent_config == ConfigsOf(store, metadata[i].id)[j]
                IN  /\ agent_config.src_ipv6_prefix # None
                    /\ validate_user_ipv6(Unwrap(metadata[i].ip_address).segments,
                                          Unwrap(agent_config.src_ipv6_prefix), user_id)

\* Request r reaches the source address step in this step: it was received,
\* its body is valid and its user's tag was obtained.
ReachesIpStep(r) ==
    /\ requests[r].pc = "idle"
    /\ requests'[r].pc = "quota" \/ requests'[r].status = 403

\* C14: a submission passes the source address step iff each IPv6 ip_address
\* of its metadata validates (validate_user_ipv6 with the user's tag) against
\* at least one configuration of that agent that has a src_ipv6_prefix;
\* otherwise it is answered 403 and nothing later runs.  IPv4 entries pass.
C14_PassIffSomeConfigValidates ==
    [][\A r \in Reqs :
          ReachesIpStep(r) =>
              /\ requests'[r].pc = "quota" <=>
                    SomeConfigValidates(agent_store, requests'[r].metadata, requests'[r].user_id)
              /\ requests'[r].status = 403 =>
                    /\ requests'[r].pc = "done"
                    /\ UNCHANGED <<measurement_tracking, kafka>>]_vars

\* The entries of metadata, in order, whose agent is registered and has a
\* health record saying healthy.
RECURSIVE RegisteredAndHealthy(_, _)
RegisteredAndHealthy(store, metadata) ==
    IF metadata = <<>> THEN <<>>
    ELSE LET agent == store[Head(metadata).id]
             rest  == RegisteredAndHealthy(store, Tail(metadata))
         IN  IF agent.registered /\ agent.health # None /\ Unwrap(agent.health)
               THEN <<Head(metadata)>> \o rest
               ELSE rest

NothingRecorded(r) ==
    /\ \A i \in RowIndexes(measurement_tracking) :
          measurement_tracking[i].measurement_id # MeasurementOf(r)
    /\ PublishedOf(kafka, MeasurementOf(r)) = <<>>

\* C15: assigned_agents is exactly the sub-list of the metadata entries whose
\* agent is registered and has a health record with healthy = true at the
\* moment of the selection; when that sub-list is empty (also when metadata is
\* empty) a request that got past the quota check is answered 400, and no
\* tracking row of it is ever created and nothing of it is ever published.
C15_AssignedAreRegisteredAndHealthy ==
    /\ [][\A r \in Reqs :
            requests[r].pc = "quota" =>
                LET selected == RegisteredAndHealthy(agent_store, requests[r].metadata)
                IN  /\ requests'[r].pc = "tracking" =>
                          requests'[r].assigned_agents = selected /\ selected # <<>>
                    /\ (selected = <<>> /\ requests'[r].pc # "quota"
                          /\ requests'[r].status \notin {429, 500}) =>
                          /\ requests'[r].status = 400
                          /\ UNCHANGED <<measurement_tracking, kafka>>]_vars
    /\ [](\A r \in Reqs : requests[r].status = 400 => NothingRecorded(r))

\* Two agents were requested, one of them is registered but not healthy: the
\* admitted request is assigned the other one only.
C15_Witness ==
    \E r \in Reqs :
        /\ requests[r].pc = "tracking"
        /\ requests[r].next = 1
        /\ Len(requests[r].metadata) = 2
        /\ Len(requests[r].assigned_agents) = 1
        /\ requests[r].assigned_agents[1].id = "a2"
        /\ agent_store["a1"].registered
        /\ agent_store["a1"].health # Some(TRUE)
        /\ agent_store["a2"].health = Some(TRUE)

(***************************************************************************)
(* Claims on the usage and status read-outs (SpecDb).                      *)
(***************************************************************************)
\* The user's rows created in [start, end].
RowsInWindow(rows, u, start, end) ==
    {i \in RowIndexes(rows) : /\ rows[i].user_hash = hash_user_identifier(u)
                              /\ start <= rows[i].created_at
                              /\ rows[i].created_at <= end}

\* The sum of field f over the rows idx, value by value.
TotalOf(rows, idx, f) ==
    LET values == {rows[i][f] : i \in idx}
    IN  WeightedCount(values, [v \in values |-> Cardinality({i \in idx : rows[i][f] = v})])

Bounds == {None} \cup {Some(t) : t \in Times}

\* C16: get_user_usage_stats(user, start, end) returns, over exactly the
\* user's rows with start <= created_at <= end (today's midnight and now when
\* absent): submission_count = number of distinct measurement ids,
\* total_probes = sum of expected_probes, last_submitted = greatest updated_at
\* (none without rows); and a step that adds no row, such as an agent's status
\* update, leaves total_probes of every fixed window as it was.
C16_UsageStatsOverWindowRows ==
    /\ [](\A u \in Users, start_time \in Bounds, end_time \in Bounds :
            LET stats == get_user_usage_stats(measurement_tracking, user_limits, now, u,
                                              start_time, end_time)
                R == RowsInWindow(measurement_tracking, u,
                                  IF start_time = None THEN WindowStart(None)
                                                       ELSE Unwrap(start_time),
                                  IF end_time = None THEN now ELSE Unwrap(end_time))
            IN  /\ stats.submission_count =
                      Cardinality({measurement_tracking[i].measurement_id : i \in R})
                /\ stats.total_probes = TotalOf(measurement_tracking, R, "expected_probes")
                /\ stats.last_submitted =
                      IF R = {} THEN None
                      ELSE Some(Max({measurement_tracking[i].updated_at : i \in R})))
    /\ [][(/\ Len(measurement_tracking') = Len(measurement_tracking)
            /\ measurement_tracking' # measurement_tracking) =>
            \A u \in Users, s \in Times, e \in Times :
                get_user_usage_stats(measurement_tracking', user_limits', now', u,
                                     Some(s), Some(e)).total_probes
                  = get_user_usage_stats(measurement_tracking, user_limits, now, u,
                                         Some(s), Some(e)).total_probes]_vars

\* alice has two rows of one measurement, one of them updated by its agent
\* (25 sent of 60 expected): one submission, 120 probes.
C16_Witness ==
    LET stats == get_user_usage_stats(measurement_tracking, user_limits, now, "alice",
                                      None, None)
    IN  /\ stats.submission_count = 1
        /\ stats.total_probes = 120
        /\ stats.last_submitted # None
        /\ \E i \in RowIndexes(measurement_tracking) :
              measurement_tracking[i].sent_probes = 25

\* C17: get_measurement_status(m, u) returns, for the set R of rows with
\* measurement_id m and user_hash u: total_agents = |R|, completed_agents =
\* the number of rows with is_complete, total_expected_probes and
\* total_sent_probes the sums of the two columns (sent above expected is
\* reported as it is); none when R is empty.
C17_StatusTotalsOverRows ==
    \A m \in Measurements, u \in Users :
        LET status == get_measurement_status(measurement_tracking, m, hash_user_identifier(u))
            R == {i \in RowIndexes(measurement_tracking) :
                     /\ measurement_tracking[i].measurement_id = m
                     /\ measurement_tracking[i].user_hash = hash_user_identifier(u)}
        IN  /\ status = None <=> R = {}
            /\ R # {} =>
                  /\ Unwrap(status).total_agents = Cardinality(R)
                  /\ Unwrap(status).completed_agents =
                        Cardinality({i \in R : measurement_tracking[i].is_complete})
                  /\ Unwrap(status).total_expected_probes =
                        TotalOf(measurement_tracking, R, "expected_probes")
                  /\ Unwrap(status).total_sent_probes =
                        TotalOf(measurement_tracking, R, "sent_probes")

\* An agent reported more probes sent than were expected of it: the status
\* shows the greater total.
C17_Witness ==
    \E m \in Measurements, u \in Users :
        LET status == get_measurement_status(measurement_tracking, m, hash_user_identifier(u))
        IN  /\ status # None
            /\ Unwrap(status).total_sent_probes > Unwrap(status).total_expected_probes
            /\ Unwrap(status).total_sent_probes = 25

(***************************************************************************)
(* Claims on the stored tags (SpecUserId).                                 *)
(***************************************************************************)
\* C18: once a (user_hash -> tag) row exists no later step changes or deletes
\* it, and every get_or_create_user_id that returns for a subject that had a
\* row returns the tag of that row.
C18_StoredTagNeverChanges ==
    [][/\ user_id_mappings \subseteq user_id_mappings'
       /\ \A t \in Callers :
             (callers[t].pc # "done" /\ callers'[t].pc = "done"
                /\ callers'[t].result.kind = "ok") =>
                 \A row \in RowsOf(callers[t].subject) :
                     callers'[t].result.value = row.user_id]_vars

\* A subject's row was found by a later call while another user, whose
\* first candidate collided with it, was stored under a different tag.
C18_Witness ==
    \E t \in Callers, other \in user_id_mappings :
        /\ Returned(t)
        /\ callers[t].path = "found"
        /\ other.user_hash # hash_user_identifier(callers[t].subject)
        /\ other.user_id # generate_deterministic_user_id(other.user_hash)
        /\ generate_deterministic_user_id(other.user_hash) = callers[t].result.value

InRange(user_id) == ~U32Lt(user_id, <<0, 1000>>) /\ ~U32Lt(<<65535, 65280>>, user_id)

\* C19: every tag stored in the mapping or returned by get_or_create_user_id,
\* from the deterministic first attempt or from a random retry, lies in
\* [1000, 0xFFFFFF00], also for users whose hash starts with 32 bits below
\* 1000 (5, 999) or above 0xFFFFFF00 (0xFFFFFF01, 0xFFFFFFFF).
C19_TagsInRange ==
    /\ \A row \in user_id_mappings : InRange(row.user_id)
    /\ \A t \in Callers : Returned(t) => InRange(callers[t].result.value)
    /\ \A t \in Callers : callers[t].pc \in {"insert", "reread"} /\ callers[t].attempt > 0 =>
          InRange(callers[t].candidate)

\* Stored side by side: a deterministic tag of a hash below 1000, one of a
\* hash above 0xFFFFFF00, and a tag drawn at random after a collision.
C19_Witness ==
    /\ \E row \in user_id_mappings :
          /\ U32Lt(from_str_radix(row.user_hash.prefix), <<0, 1000>>)
          /\ row.user_id = generate_deterministic_user_id(row.user_hash)
    /\ \E row \in user_id_mappings :
          /\ U32Lt(<<65535, 65280>>, from_str_radix(row.user_hash.prefix))
          /\ row.user_id = generate_deterministic_user_id(row.user_hash)
    /\ \E row \in user_id_mappings :
          /\ row.user_id # generate_deterministic_user_id(row.user_hash)
          /\ row.user_id \in RandomDraws

(***************************************************************************)
(* Claims on the tracking table of the gateway (Spec).                     *)
(***************************************************************************)
\* C20: after any sequence of submissions and status updates, also when a
\* submission's metadata names one agent id more than once, the tracking table
\* holds at most one row per (measurement_id, agent_id).
C20_OneRowPerMeasurementAndAgent ==
    \A i, j \in RowIndexes(measurement_tracking) :
        (/\ measurement_tracking[i].measurement_id = measurement_tracking[j].measurement_id
         /\ measurement_tracking[i].agent_id = measurement_tracking[j].agent_id) => i = j

\* C21: every tracking row has sent_probes >= 0 in every reachable state,
\* whatever sent_probes the agents post in their status updates.
C21_SentProbesNotNegative ==
    \A i \in RowIndexes(measurement_tracking) : measurement_tracking[i].sent_probes >= 0

(***************************************************************************)
(* Claims on the life of a tracking row (SpecDb).                          *)
(***************************************************************************)
\* C22: a tracking row is created with sent_probes = 0, is_complete = false
\* and the expected_probes given, and no later step changes its
\* expected_probes, user_hash, measurement_id, agent_id or created_at (nor its
\* id): an update changes sent_probes, is_complete and updated_at only.
C22_RowFrame ==
    [][/\ Len(measurement_tracking') >= Len(measurement_tracking)
       /\ \A i \in RowIndexes(measurement_tracking') :
             LET new == measurement_tracking'[i]
             IN  IF i > Len(measurement_tracking)
                   THEN /\ new.sent_probes = 0
                        /\ ~new.is_complete
                        /\ new.expected_probes = ExpectedOf(new.measurement_id)
                        /\ new.created_at = now /\ new.updated_at = now
                   ELSE LET old == measurement_tracking[i]
                        IN  /\ new.expected_probes = old.expected_probes
                            /\ new.user_hash = old.user_hash
                            /\ new.measurement_id = old.measurement_id
                            /\ new.agent_id = old.agent_id
                            /\ new.created_at = old.created_at
                            /\ new.id = old.id]_vars

\* A row created at time 0 and updated at time 1: sent_probes, is_complete
\* and updated_at moved, the rest is as created.
C22_Witness ==
    \E i \in RowIndexes(measurement_tracking) :
        LET row == measurement_tracking[i]
        IN  /\ row.sent_probes = 25
            /\ row.is_complete
            /\ row.created_at = 0
            /\ row.updated_at = 1
            /\ row.expected_probes = ExpectedOf(row.measurement_id)

(***************************************************************************)
(* Claims on unusable agent prefixes (SpecPrefix).                         *)
(***************************************************************************)
\* C23: for an agent prefix that does not parse as an IPv6 network or whose
\* length is above 96, calculate_user_prefix returns no prefix and
\* validate_user_ipv6 returns false, for every address and tag; no user prefix
\* returned is longer than 128.
C23_UnusablePrefixGivesNothing ==
    \A n \in 1..Len(prefix_call) :
        LET c == prefix_call[n]
        IN  /\ (\/ Ipv6Net_from_str(c.agent_prefix) = None
                \/ Unwrap(c.agent_prefix.len) > 96) =>
                   c.user_prefix = None /\ ~c.valid
            /\ c.user_prefix # None => Unwrap(Unwrap(c.user_prefix).len) <= 128

\* 2001:db8::1 lies in the agent's 2001:db8::/97, which is too long to hold
\* a tag: no user prefix, the address is refused.
C23_Witness ==
    \E n \in 1..Len(prefix_call) :
        LET c == prefix_call[n]
        IN  /\ c.agent_prefix = Text(<<Hex(8193), Hex(3512), Gap>>, Some(97))
            /\ c.user_ip = <<8193, 3512, 0, 0, 0, 0, 0, 1>>
            /\ InsideText(c.user_ip, c.agent_prefix)
            /\ c.user_prefix = None
            /\ ~c.valid

(***************************************************************************)
(* Claims on invalid probes (SpecCodec, Spec).                             *)
(***************************************************************************)
FirstInvalid(json_probes) ==
    Min({i \in 1..Len(json_probes) : Records(json_probes)[i].kind = "err"})

\* C24: when some probe of the input is invalid, deserialize_probes_batch
\* returns the error of the first invalid probe and no batch at all, whatever
\* valid probes precede it.
C24_InvalidProbeFailsWhole ==
    \A n \in 1..Len(codec_call) :
        LET c == codec_call[n]
        IN  ~AllValid(c.json_probes) =>
               /\ c.result.kind = "err"
               /\ c.result.batches = <<>>
               /\ c.result.reason = Records(c.json_probes)[FirstInvalid(c.json_probes)].reason

\* The probe a list may hold: [dst_addr, src_port, dst_port, ttl, protocol].
WellFormedProbe(p) ==
    /\ p.t = "arr"
    /\ Len(p.items) = 5
    /\ p.items[1].t = "str" /\ IpAddr_from_str(p.items[1].s) # None
    /\ \A k \in {2, 3} : p.items[k].t = "num" /\ p.items[k].n \in 1..65535
    /\ p.items[4].t = "num" /\ p.items[4].n \in 1..255
    /\ p.items[5].t = "str" /\ to_lowercase(p.items[5].s) \in {"tcp", "udp", "icmp", "icmpv6"}

IllFormed(probes) == {i \in 1..Len(probes) : ~WellFormedProbe(probes[i])}

\* C25: POST /probes answers "Probe validation failed" exactly when some probe
\* of the list is not a 5-element array of a parsable address, two ports in
\* 1..65535, a TTL in 1..255 and one of the four protocol names in any case;
\* the answer is then a 400 that names the smallest index (from 0) of such a
\* probe, and no tag, tracking row or message has been written for it.
C25_RejectedIffIllFormed ==
    LET q == requests["r1"]
    IN  q.pc # "idle" =>
          /\ (q.message.text = "Probe validation failed") <=> IllFormed(q.probes) # {}
          /\ IllFormed(q.probes) # {} =>
                /\ q.pc = "done"
                /\ q.status = 400
                /\ Unwrap(q.message.detail).index = Min(IllFormed(q.probes)) - 1
                /\ user_id_mappings = {}
                /\ measurement_tracking = <<>>
                /\ kafka = <<>>

C25_Witness ==
    LET q == requests["r1"]
    IN  /\ q.pc = "done"
        /\ q.status = 400
        /\ Len(q.probes) = 3
        /\ WellFormedProbe(q.probes[1]) /\ WellFormedProbe(q.probes[2])
        /\ q.message.text = "Probe validation failed"
        /\ Unwrap(q.message.detail).index = 2


AgentBodies(out) ==
    IF out.endpoint \in {"register", "agent"} /\ out.status = 200 THEN {Unwrap(out.body)}
    ELSE IF out.endpoint = "agents" THEN Unwrap(out.body)
    ELSE {}

AgentEndpoints == {"register", "config", "health", "status"}

\* C29: an answer of an agent-facing endpoint is a 401 exactly when the
\* request's Authorization header is not "Bearer " followed by the
\* configured key, and a step that ends in a 401 changes neither the
\* registry nor the tracking rows.
C29_Answered ==
    agent_out.endpoint \in AgentEndpoints =>
        (agent_out.status = 401 <=> agent_out.authorization # Some(Bearer \o agent_key))

C29_Frame ==
    agent_out'.status = 401 =>
        registry' = registry /\ measurement_tracking' = measurement_tracking

C29_AgentKeyGates == [](C29_Answered) /\ [][C29_Frame]_vars

C29_Witness ==
    /\ agent_out.endpoint = "status"
    /\ agent_out.status = 401
    /\ agent_out.authorization = Some(Bearer \o <<"k", "2">>)
    /\ registry["a1"] # None
    /\ measurement_tracking[1].sent_probes = 25

(***************************************************************************)
(* Claims on the JWKS cache (SpecJwks).                                    *)
(***************************************************************************)
Fetching == {j \in JwtTasks : validators[j].pc = "fetch"}

\* C30: at no time are two tasks of get_or_create fetching the JWKS: of the
\* tasks that find the cache empty or expired one fetches and the others
\* wait for what it stores.
C30_SingleFlight == Cardinality(Fetching) <= 1

(***************************************************************************)
(* Claims on the first candidate and on termination (SpecUserId).          *)
(***************************************************************************)
\* The first INSERT of a call: the step that leaves attempt 0 with a
\* candidate (every outcome of the INSERT but a database error).
FirstAttempt(t) ==
    /\ callers[t].pc = "insert"
    /\ callers[t].attempt = 0
    /\ callers'[t] # callers[t]
    /\ callers'[t].path # "error"

FirstBits(t) == from_str_radix(hash_user_identifier(callers[t].subject).prefix)

\* v clamped into [1000, 0xFFFFFF00].
Clamped(v) ==
    IF U32Lt(v, <<0, 1000>>) THEN <<0, 1000>>
    ELSE IF U32Lt(<<65535, 65280>>, v) THEN <<65535, 65280>>
    ELSE v

\* v folded into the range: v itself when in range, v + 1000 when v < 1000,
\* and 1000 + (v - (0xFFFFFF00 - 1000)) = 2000 + (v - 0xFFFFFF00) when
\* v > 0xFFFFFF00 (one subtraction of the modulus is enough there).
Folded(v) ==
    IF U32Lt(v, <<0, 1000>>) THEN <<0, 1000 + v[2]>>
    ELSE IF U32Lt(<<65535, 65280>>, v) THEN <<0, 2000 + (v[2] - 65280)>>
    ELSE v

\* C31 as stated: the first candidate tried for a new user is the first 32
\* bits of the user hash clamped into [1000, 0xFFFFFF00].
C31_FirstCandidateClamped ==
    [][\A t \in Callers : FirstAttempt(t) => callers'[t].candidate = Clamped(FirstBits(t))]_vars

\* C31, amended: the first candidate tried for a new user is a function of
\* the first 32 bits v of the user hash alone: v when 1000 <= v <= 0xFFFFFF00,
\* and 1000 + (v mod (0xFFFFFF00 - 1000)) otherwise.
C31_FirstCandidateFolded ==
    [][\A t \in Callers : FirstAttempt(t) => callers'[t].candidate = Folded(FirstBits(t))]_vars

\* First candidates of a hash below 1000, of one above 0xFFFFFF00 and of one
\* in range have been tried, and none of the out-of-range ones is a bound
\* of the range.
C31_Witness ==
    \E t \in Callers :
        /\ callers[t].pc \in {"done", "reread"}
        /\ callers[t].attempt = 0
        /\ callers[t].path \in {"none", "inserted"}
        /\ callers[t].subject = "carol"
        /\ callers[t].candidate = <<0, 2255>>
        /\ \E row \in user_id_mappings :
              /\ row.user_hash = hash_user_identifier("alice")
              /\ row.user_id = <<0, 1005>>

\* A call in progress.
Running(t) == callers[t].pc \in {"lookup", "insert", "reread"}

\* C32: get_or_create_user_id always terminates, whatever conflicts its
\* INSERTs meet and whatever the other caller does: a call never starts an
\* attempt beyond max_attempts, every call in progress eventually returns,
\* and a call that returns a tag returns one stored for its user.
C32_Terminates ==
    /\ [](\A t \in Callers :
            /\ callers[t].attempt < MaxAttempts
            /\ Returned(t) =>
                  [user_hash |-> hash_user_identifier(callers[t].subject),
                   user_id |-> callers[t].result.value] \in user_id_mappings)
    /\ \A t \in Callers : Running(t) ~> (callers[t].pc = "done")

\* A call whose every attempt, the deterministic one and the random ones,
\* met a tag held by another user, and that ended with the error.
C32_Witness ==
    \E t \in Callers :
        /\ callers[t].pc = "done"
        /\ callers[t].path = "exhausted"
        /\ callers[t].result.kind = "err"
        /\ callers[t].attempt = MaxAttempts - 1
        /\ RowsOf(callers[t].subject) = {}

(***************************************************************************)
(* Claims on the submission's rows, headers and answers (SpecPublish).     *)
(***************************************************************************)
\* C33: every published batch of a submission carries one header per entry
\* of the request's metadata, in order, assigned or not: its key is the
\* entry's agent id and its value holds the entry's src_ip, the measurement
\* id and a boolean end_of_measurement; the message key of every batch of
\* the submission is that measurement id.
C33_HeaderPerMetadataAgent ==
    \A r \in Reqs : \A k \in 1..Len(kafka) :
        (kafka[k].key = MeasurementOf(r)) =>
            LET metadata == requests[r].metadata
                headers  == kafka[k].headers
            IN  /\ Len(headers) = Len(metadata)
                /\ \A i \in 1..Len(metadata) :
                      /\ headers[i].key = metadata[i].id
                      /\ headers[i].src_ip = metadata[i].ip_address
                      /\ headers[i].measurement_id = kafka[k].key
                      /\ headers[i].end_of_measurement \in BOOLEAN

\* Two batches of one submission are on the bus, both with a header for a1
\* and one for a2, while only a2 was assigned (a1 had not registered).
C33_Witness ==
    \E r \in Reqs :
        LET msgs == PublishedOf(kafka, MeasurementOf(r))
        IN  /\ Len(msgs) = 2
            /\ Len(requests[r].metadata) = 2
            /\ Len(requests[r].assigned_agents) = 1
            /\ requests[r].assigned_agents[1].id = "a2"
            /\ \A k \in 1..2 : msgs[k].headers[1].key = "a1" /\ msgs[k].headers[2].key = "a2"

\* The tracking row submit_probes asks for in the i-th round of its loop.
TrackingRow(r, i) ==
    [user_hash |-> hash_user_identifier(requests[r].sub),
     measurement_id |-> MeasurementOf(r),
     agent_id |-> requests[r].assigned_agents[i].id,
     expected_probes |-> Len(requests[r].probes)]

RowKey(row) ==
    [user_hash |-> row.user_hash, measurement_id |-> row.measurement_id,
     agent_id |-> row.agent_id, expected_probes |-> row.expected_probes]

\* The rows of the submission while it is in round `next` of the loop are
\* rows asked for in the earlier rounds, at most one per round.
TrackedSoFar(r, rounds) ==
    LET rows == SelectSeq(measurement_tracking,
                          LAMBDA row : row.measurement_id = MeasurementOf(r))
    IN  /\ Len(rows) <= rounds
        /\ \A k \in 1..Len(rows) : \E i \in 1..rounds : RowKey(rows[k]) = TrackingRow(r, i)

\* One round of the tracking loop of request r.
TrackingRound(r) == requests[r].pc = "tracking" /\ requests'[r] # requests[r]

\* C34: a submission that passed agent selection and encoding goes through
\* one round per assigned agent before its first batch is published; a round
\* creates the row (measurement, agent, expected_probes = |probes|) or fails
\* and leaves the table as it is, and in both cases the loop goes on to the
\* next agent and, after the last one, to the publishing of the batches.
C34_RowsBeforeBatches ==
    /\ [](\A r \in Reqs :
            /\ requests[r].pc = "tracking" =>
                  /\ PublishedOf(kafka, MeasurementOf(r)) = <<>>
                  /\ TrackedSoFar(r, requests[r].next - 1)
            /\ PublishedOf(kafka, MeasurementOf(r)) # <<>> =>
                  /\ requests[r].pc \in {"publish", "done"}
                  /\ TrackedSoFar(r, Len(requests[r].assigned_agents)))
    /\ [][\A r \in Reqs : TrackingRound(r) =>
            LET q == requests[r]
            IN  /\ \/ measurement_tracking' = measurement_tracking
                   \/ /\ Len(measurement_tracking') = Len(measurement_tracking) + 1
                      /\ SubSeq(measurement_tracking', 1, Len(measurement_tracking)) =
                            measurement_tracking
                      /\ RowKey(measurement_tracking'[Len(measurement_tracking')]) =
                            TrackingRow(r, q.next)
                /\ kafka' = kafka
                /\ IF q.next < Len(q.assigned_agents)
                     THEN requests'[r].pc = "tracking" /\ requests'[r].next = q.next + 1
                     ELSE requests'[r].pc = "publish"]_vars

\* A submission assigned to a1 and a2 was answered 200 with both its batches
\* published, although the row of a1 could not be created: only the row of
\* a2 exists, expecting the two probes.
C34_Witness ==
    \E r \in Reqs :
        LET rows == SelectSeq(measurement_tracking,
                              LAMBDA row : row.measurement_id = MeasurementOf(r))
        IN  /\ requests[r].status = 200
            /\ Len(requests[r].assigned_agents) = 2
            /\ Len(PublishedOf(kafka, MeasurementOf(r))) = 2
            /\ Len(rows) = 1
            /\ rows[1].agent_id = "a2"
            /\ rows[1].expected_probes = 2

\* C35: with the limit unchanged, the total_probes recorded for a user over
\* the current UTC day never exceeds the user's limit, whatever submissions
\* the user makes within the day.
C35_DailyTotalWithinLimit ==
    \A u \in GatewayUsers :
        LET stats == get_user_usage_stats(measurement_tracking, user_limits, now, u,
                                          Some(today_start(now)), Some(now))
        IN  stats.total_probes <= stats.limit

\* The address lies in the sub-prefix of the tag under a src_ipv6_prefix of
\* one of the configurations agents are ever given.
InUserSubPrefix(ip_addr, user_id) ==
    \E config \in AgentConfigs : \E j \in 1..Len(config) :
        /\ config[j].src_ipv6_prefix # None
        /\ validate_user_ipv6(ip_addr.segments, Unwrap(config[j].src_ipv6_prefix), user_id)

\* C36: every IPv6 src_ip in a header of a published batch lies inside the
\* submitting user's sub-prefix of a src_ipv6_prefix configured for the
\* header's agent, also when the agent is not registered or has no
\* configuration.  (Stated against every prefix the agent is ever configured
\* with, which is the weakest reading.)
C36_PublishedIpv6InUserPrefix ==
    \A r \in Reqs : \A k \in 1..Len(kafka) :
        (kafka[k].key = MeasurementOf(r)) =>
            \A h \in 1..Len(kafka[k].headers) :
                LET ip_addr == Unwrap(kafka[k].headers[h].src_ip)
                IN  ip_addr.v6 => InUserSubPrefix(ip_addr, requests[r].user_id)

\* C37: every agent id that is the key of a header of a published batch of
\* measurement m has a tracking row (m, agent), so that the agent's status
\* update for m finds its row.
C37_HeaderAgentsHaveRows ==
    \A k \in 1..Len(kafka) : \A h \in 1..Len(kafka[k].headers) :
        get_measurement_tracking_by_agent(measurement_tracking, kafka[k].key,
                                          kafka[k].headers[h].key) # None

\* What GET /user/me and GET /measurement/{id}/status show of the tables.
Reports(rows, limits, t) ==
    [usage  |-> [u \in GatewayUsers |-> get_user_usage_stats(rows, limits, t, u, None, None)],
     status |-> [u \in GatewayUsers |->
                   [m \in Measurements |->
                      get_measurement_status(rows, m, hash_user_identifier(u))]]]

Refused(q) == q.pc = "done" /\ q.status \in {400, 403, 429}

\* C38: a POST /probes answered 400, 403 or 429 has created no tracking row
\* and published no batch: the step that writes the answer, like every
\* earlier step of the request, leaves the tracking table, the limits and
\* the bus as they were, so the usage stats and the measurement statuses of
\* every user read the same before and after.
C38_RefusedLeavesNoTrace ==
    /\ [](\A r \in Reqs : Refused(requests[r]) =>
            /\ PublishedOf(kafka, MeasurementOf(r)) = <<>>
            /\ \A i \in RowIndexes(measurement_tracking) :
                  measurement_tracking[i].measurement_id # MeasurementOf(r))
    /\ [][\A r \in Reqs :
            (requests[r].pc \in {"idle", "quota"} /\ Refused(requests'[r])) =>
                /\ measurement_tracking' = measurement_tracking
                /\ kafka' = kafka
                /\ Reports(measurement_tracking', user_limits', now') =
                      Reports(measurement_tracking, user_limits, now)]_vars

\* After alice's first submission was tracked and published, a second
\* request was refused for the quota (429) while the rows and the batches
\* of the first are all there are.
C38_Witness ==
    /\ requests["r1"].status = 200
    /\ requests["r2"].status = 429
    /\ requests["r2"].pc = "done"
    /\ measurement_tracking # <<>>
    /\ \A i \in RowIndexes(measurement_tracking) :
          measurement_tracking[i].measurement_id = MeasurementOf("r1")
    /\ PublishedOf(kafka, MeasurementOf("r1")) = kafka
    /\ kafka # <<>>

(***************************************************************************)
(* Claim on GET /measurement/{id}/status (SpecDb).                         *)
(***************************************************************************)
\* The path segments tried: the measurement ids and a string that is no UUID.
StatusPaths == Measurements \cup {"not-a-uuid"}

\* The rows of the table that belong to user u, in table order.
OwnRows(rows, u) == SelectSeq(rows, LAMBDA row : row.user_hash = hash_user_identifier(u))

Statuses(answers) == {a.status : a \in answers}

\* C39: GET /measurement/{id}/status by user u is answered 200 only if rows
\* with that measurement id and hash(u) exist; without such rows the answer
\* to a well-formed id is 404 (500 if the database fails), and every answer
\* u can get, aggregates and per-agent details included, is the one u would
\* get from a table holding u's rows alone.
C39_StatusOnlyOfOwnMeasurements ==
    \A u \in Users, id \in StatusPaths :
        LET answers == get_measurement_status_handler(measurement_tracking, u, id)
            own     == {i \in RowIndexes(measurement_tracking) :
                          /\ measurement_tracking[i].measurement_id = id
                          /\ measurement_tracking[i].user_hash = hash_user_identifier(u)}
        IN  /\ 200 \in Statuses(answers) => own # {}
            /\ (own = {} /\ id \in Measurements) =>
                  404 \in Statuses(answers) /\ Statuses(answers) \subseteq {404, 500}
            /\ answers =
                  get_measurement_status_handler(OwnRows(measurement_tracking, u), u, id)

\* alice and bob each hold a row of their own measurement: bob can read the
\* status of m2 and is told 404 for m1, which alice can read.
C39_Witness ==
    /\ 200 \in Statuses(get_measurement_status_handler(measurement_tracking, "alice", "m1"))
    /\ 200 \in Statuses(get_measurement_status_handler(measurement_tracking, "bob", "m2"))
    /\ Statuses(get_measurement_status_handler(measurement_tracking, "bob", "m1")) = {404, 500}
    /\ \E a \in get_measurement_status_handler(measurement_tracking, "bob", "m2") :
          a.status = 200 /\ Len(Unwrap(a.body).agents) = 1

(***************************************************************************)
(* Claim on the users' sub-prefixes of one agent prefix (SpecPrefix).      *)
(***************************************************************************)
\* C40: for an agent prefix P/L with L <= 96, an address that validates
\* under (P/L, T1) validates under no (P/L, T2) with T2 # T1 and lies inside
\* P/L: the users' sub-prefixes of one agent prefix are pairwise disjoint
\* and contained in the agent's prefix.
C40_SubPrefixesDisjoint ==
    \A n \in 1..Len(prefix_call) :
        LET c == prefix_call[n]
        IN  (UsableAgentPrefix(c.agent_prefix) /\ c.valid) =>
               /\ InsideText(c.user_ip, c.agent_prefix)
               /\ \A T2 \in UserTags \ {c.user_id} :
                     ~validate_user_ipv6(c.user_ip, c.agent_prefix, T2)

\* The last address of the sub-prefix of tag 0xFFFF under 2001:db8:123f:ffff::/44
\* validates for that tag; the tags 0 and 0xFFFFFFFF, whose sub-prefixes lie
\* in the same agent prefix, do not accept it.
C40_Witness ==
    \E n \in 1..Len(prefix_call) :
        LET c == prefix_call[n]
        IN  /\ c.agent_prefix = Text(<<Hex(8193), Hex(3512), Hex(4671), Hex(65535), Gap>>, Some(44))
            /\ c.user_id = <<0, 65535>>
            /\ c.valid
            /\ c.user_ip # Unwrap(calculate_user_prefix_addr(c.agent_prefix, c.user_id))
            /\ ~validate_user_ipv6(c.user_ip, c.agent_prefix, <<0, 0>>)
            /\ ~validate_user_ipv6(c.user_ip, c.agent_prefix, <<65535, 65535>>)
            /\ validate_user_ipv6(Unwrap(calculate_user_prefix_addr(c.agent_prefix, <<0, 0>>)),
                                  c.agent_prefix, <<0, 0>>)

=============================================================================
